---- MODULE Spec2Model ----
(***************************************************************************)
(* Model of the suitability run engine of nzlusdb (core/landuse.py):       *)
(* LandUse._run_lsa, LandUse._load_criteria_indicators, LandUse.run_lsa    *)
(* and the period slices of LandUse.period_mmm_change_robustness.          *)
(*                                                                         *)
(* Scores are kept exactly.  A score is NaN, exactly 0, or a positive      *)
(* number written b^(-n/d) for a fixed base b > 1 (n/d a reduced fraction, *)
(* n = 0 is the score 1.0), so that the weighted geometric mean            *)
(* (prod x_i^w_i)^(1/sum w_i) is the weighted arithmetic mean of the       *)
(* exponents and is computed with integers only.  Weights are counted in   *)
(* units of 0.5, the finest step the catalogs use.                         *)
(***************************************************************************)
EXTENDS Integers, Sequences, FiniteSets

\* ------------------------------------------------------------------ bounds
\* The dict keys of a catalog, in insertion order.
Keys == <<"c1", "c2", "c3">>
NCrit == Len(Keys)
\* Largest exponent of an input score: scores b^0 .. b^(-MaxLog).
MaxLog == 1
\* Largest criterion weight, in units of 0.5.
MaxWeight == 2
\* Number of climate-grid cells along the modelled axis.
NClim == 2

\* Soil/terrain cells per climate cell along one axis: the 5km run reads the
\* 25km climate, the 1km run the 5km climate.
GridRatio == 5

\* ------------------------------------------------------------------ scores
NaN == [k |-> "nan", n |-> 0, d |-> 1]
Zero == [k |-> "zero", n |-> 0, d |-> 1]
Pos(n, d) == [k |-> "pos", n |-> n, d |-> d]

RECURSIVE GCD(_, _)
GCD(a, b) == IF b = 0 THEN a ELSE GCD(b, a % b)

\* The positive score with exponent n/d, reduced.
Frac(n, d) == IF n = 0 THEN Pos(0, 1) ELSE Pos(n \div GCD(n, d), d \div GCD(n, d))

\* The input scores, in a fixed order.
ValSeq == <<NaN, Zero>> \o [i \in 1..(MaxLog + 1) |-> Pos(i - 1, 1)]
NVal == Len(ValSeq)

RECURSIVE SumSeq(_)
SumSeq(s) == IF s = <<>> THEN 0 ELSE Head(s) + SumSeq(Tail(s))

\* sum_i w_i * (n_i / d_i) as a pair <<numerator, denominator>>.
RECURSIVE WeightedExp(_, _)
WeightedExp(xs, ws) ==
    IF xs = <<>> THEN <<0, 1>>
    ELSE LET r == WeightedExp(Tail(xs), Tail(ws))
             x == Head(xs)
         IN <<Head(ws) * x.n * r[2] + r[1] * x.d, x.d * r[2]>>

\* lsapy's wgmean at one cell, (prod x_i^w_i)^(1/sum w_i), in floating-point
\* semantics: a NaN input gives NaN, otherwise a 0 input gives 0.
wgmean(xs, ws) ==
    IF \E i \in DOMAIN xs : xs[i].k = "nan" THEN NaN
    ELSE IF \E i \in DOMAIN xs : xs[i].k = "zero" THEN Zero
    ELSE LET e == WeightedExp(xs, ws)
         IN Frac(e[1], e[2] * SumSeq(ws))

\* ------------------------------------------------------------------ grids
\* Cell centres along one axis, in units of the soil/terrain cell: soil cell i
\* is at i, the climate cell j covers the soil cells GridRatio*j ..
\* GridRatio*j + GridRatio - 1 and has its centre in the middle of them.
SoilX == 0..(GridRatio * NClim - 1)
ClimX == {GridRatio * j + GridRatio \div 2 : j \in 0..(NClim - 1)}

Abs(a) == IF a < 0 THEN 0 - a ELSE a
SetMin(S) == CHOOSE m \in S : \A o \in S : m <= o
SetMax(S) == CHOOSE m \in S : \A o \in S : m >= o

\* The climate cells at the least distance from x.
Nearest(x) == {c \in ClimX : \A o \in ClimX : Abs(c - x) <= Abs(o - x)}

\* Mutant of InterpNearest: every target takes the next climate cell at or
\* above it (a backfill), the last cell beyond it.
InterpBackfill(f) ==
    [x \in SoilX |->
        IF x < SetMin(ClimX) \/ x > SetMax(ClimX) THEN NaN
        ELSE f[SetMin({c \in ClimX : c >= x})]]

\* DataArray.interp_like(soil, method="nearest"): the field on the soil grid.
\* xarray interpolates along each axis with scipy's interp1d(kind="nearest",
\* bounds_error=False, fill_value=nan): a target outside the range of the
\* source coordinates gets NaN, and a tie goes to the lower coordinate.
InterpNearest(f) ==
    [x \in SoilX |->
        IF x < SetMin(ClimX) \/ x > SetMax(ClimX) THEN NaN
        ELSE f[SetMin(Nearest(x))]]

\* ------------------------------------------------------------------ datasets
\* An xr.Dataset: its variables in insertion order, each <<name, field>>.
DsNames(ds) == [i \in DOMAIN ds |-> ds[i].name]
DsHas(ds, name) == \E i \in DOMAIN ds : ds[i].name = name
DsGet(ds, name) == ds[CHOOSE i \in DOMAIN ds : ds[i].name = name].f

\* ds[name] = f: a new variable is appended, an existing one is replaced in place.
DsSet(ds, name, f) ==
    IF DsHas(ds, name)
    THEN [i \in DOMAIN ds |-> IF ds[i].name = name THEN [name |-> name, f |-> f] ELSE ds[i]]
    ELSE Append(ds, [name |-> name, f |-> f])

\* ------------------------------------------------------------------ state
VARIABLES
    criteria,     \* the crop catalog handed to _run_lsa, indicators bound
    lsaStatus,    \* "ready" | "done" | "raised"
    lsaData,      \* the dataset _run_lsa returns
    soilCall,     \* arguments and result of aggregate(sc_soil, ...)
    climCall      \* arguments and result of aggregate(sc_clim, ...)

lsaVars == <<criteria, lsaStatus, lsaData, soilCall, climCall>>

VARIABLES
    catalog,      \* the module-level catalog and indicator mapping of one crop
    indicator,    \* the indicator bound to each criterion of the catalog
    nCalls,       \* number of _run_lsa calls made on the catalog so far
    lastArgs,     \* (scenario, model, resolution) of the last call
    lastLoad,     \* how _load_criteria_indicators ended in it: "ok" | "raised"
    lastResult    \* what the last _run_lsa call returned

loadVars == <<catalog, indicator, nCalls, lastArgs, lastLoad, lastResult>>

VARIABLES
    resolution,   \* LandUse.resolution during run_lsa
    rerun,        \* the rerun argument of run_lsa
    files,        \* the output files: name -> content, or NoFile
    scenIdx,      \* position of the scenario loop (index into Scenarios)
    modelIdx,     \* position of the model loop at 1km (index into Models)
    phase,        \* position inside run_lsa
    outData,      \* the result of _run held in memory
    soilEvals,    \* evaluations and aggregations of the soil/terrain criteria
    lsaReturned,  \* _run_lsa calls that returned
    filesAtIter,  \* the files when the current iteration began
    filesAtStart  \* the files when run_lsa was called

runVars == <<resolution, rerun, files, scenIdx, modelIdx, phase, outData, soilEvals, lsaReturned,
             filesAtIter, filesAtStart>>

VARIABLES
    timeStep,     \* one step of the time axis, as months since year 0
    inPeriods     \* the period slices that select it

periodVars == <<timeStep, inPeriods>>

VARIABLES
    ens,          \* the input of period_mmm_change_robustness at one cell
    deltaMethod,  \* its delta_method argument
    unitsAttr,    \* data.attrs["units"], or "none"
    mmmOut,       \* the dataset it returned
    rasterFiles,  \* the GeoTIFF files _write_output_as_raster wrote
    mmmPhase      \* "input" | "computed" | "written"

mmmVars == <<ens, deltaMethod, unitsAttr, mmmOut, rasterFiles, mmmPhase>>

VARIABLES
    landuse,      \* the LandUse objects: name, resolution, path
    luLast        \* the last construction or resolution assignment

luVars == <<landuse, luLast>>

VARIABLES
    dbLandUses,   \* DataBase._landuses: name -> registered object
    dbLuNames,    \* DataBase._lu_names: the listed names
    dbLast        \* the last register call

dbVars == <<dbLandUses, dbLuNames, dbLast>>

VARIABLES
    selArgs,      \* start_date, proj_startdate, end_date, freq of select_hist_proj
    selHist,      \* what the call with period="historical" selected
    selProj       \* what the call with period="projection" selected

selVars == <<selArgs, selHist, selProj>>

VARIABLES
    dwWeight,     \* the weights array the caller passes to downweight
    dwArgs,       \* period, downweight_from, downweight_to, include_bounds, interp_method
    dwOut         \* what downweight returned, or that it raised

dwVars == <<dwWeight, dwArgs, dwOut>>

VARIABLES
    openReq,      \* the model, scenario and variable arguments of ClimDataset.open
    openOut       \* the lists open reads with, the warnings it issued, and its outcome

openVars == <<openReq, openOut>>

VARIABLES
    wfIn,         \* the multi-model means behind the 1km workflow: historical, and per scenario and period
    wfIdx,        \* position of run_workflow in its scenario loop
    wfFiles,      \* the temporary mmm-change-robustness files
    wfFp,         \* fp, the per-scenario files to combine
    wfDs          \* the assembled dataset

wfVars == <<wfIn, wfIdx, wfFiles, wfFp, wfDs>>

VARIABLES
    hotRaw,       \* per scenario, the years that have a hot week at the cell
    hotFiles,     \* the years-with-hot-week indicator files, per scenario
    hotIdx        \* position of compute in climDS.scenario

hotVars == <<hotRaw, hotFiles, hotIdx>>

\* The utilities, and the engine, registry and selection parts together.
utilVars == <<dwVars, openVars, wfVars, hotVars>>
baseVars == <<lsaVars, loadVars, runVars, periodVars, mmmVars, luVars, dbVars, selVars>>

vars == <<baseVars, utilVars>>

\* What the actions of one part leave alone.
notLsa == <<loadVars, runVars, periodVars, mmmVars, luVars, dbVars, selVars, utilVars>>
notLoad == <<lsaVars, runVars, periodVars, mmmVars, luVars, dbVars, selVars, utilVars>>
notRun == <<lsaVars, loadVars, periodVars, mmmVars, luVars, dbVars, selVars, utilVars>>
notPeriod == <<lsaVars, loadVars, runVars, mmmVars, luVars, dbVars, selVars, utilVars>>
notMmm == <<lsaVars, loadVars, runVars, periodVars, luVars, dbVars, selVars, utilVars>>
notLu == <<lsaVars, loadVars, runVars, periodVars, mmmVars, dbVars, selVars, utilVars>>
notDb == <<lsaVars, loadVars, runVars, periodVars, mmmVars, luVars, selVars, utilVars>>
notSel == <<lsaVars, loadVars, runVars, periodVars, mmmVars, luVars, dbVars, utilVars>>
notDw == <<baseVars, openVars, wfVars, hotVars>>
notOpen == <<baseVars, dwVars, wfVars, hotVars>>
notWf == <<baseVars, dwVars, openVars, hotVars>>
notHot == <<baseVars, dwVars, openVars, wfVars>>

\* The parts of the state a specification does not use.
IdleLsa ==
    /\ criteria = <<>>
    /\ lsaStatus = "idle"
    /\ lsaData = <<>>
    /\ soilCall = <<>>
    /\ climCall = <<>>
IdleLoad ==
    /\ catalog = <<>>
    /\ indicator = <<>>
    /\ nCalls = 0
    /\ lastArgs = <<>>
    /\ lastLoad = "idle"
    /\ lastResult = <<>>
IdleRun ==
    /\ resolution = "idle"
    /\ rerun = FALSE
    /\ files = <<>>
    /\ scenIdx = 0
    /\ modelIdx = 0
    /\ phase = "idle"
    /\ outData = <<>>
    /\ soilEvals = 0
    /\ lsaReturned = 0
    /\ filesAtIter = <<>>
    /\ filesAtStart = <<>>
IdlePeriod ==
    /\ timeStep = 0
    /\ inPeriods = {}
IdleMmm ==
    /\ ens = <<>>
    /\ deltaMethod = "idle"
    /\ unitsAttr = "none"
    /\ mmmOut = [time |-> <<>>, changeUnits |-> "none"]
    /\ rasterFiles = {}
    /\ mmmPhase = "idle"

IdleLu ==
    /\ landuse = <<>>
    /\ luLast = <<>>
IdleDb ==
    /\ dbLandUses = <<>>
    /\ dbLuNames = <<>>
    /\ dbLast = <<>>
IdleSel ==
    /\ selArgs = <<>>
    /\ selHist = <<>>
    /\ selProj = <<>>
IdleDw ==
    /\ dwWeight = <<>>
    /\ dwArgs = <<>>
    /\ dwOut = <<>>
IdleRegistry == IdleLu /\ IdleDb /\ IdleSel
IdleOpen ==
    /\ openReq = <<>>
    /\ openOut = <<>>
IdleWf ==
    /\ wfIn = <<>>
    /\ wfIdx = 0
    /\ wfFiles = <<>>
    /\ wfFp = <<>>
    /\ wfDs = <<>>
IdleHot ==
    /\ hotRaw = <<>>
    /\ hotFiles = <<>>
    /\ hotIdx = 0
IdleUtil == IdleDw /\ IdleOpen /\ IdleWf /\ IdleHot

OnlyLsa == IdleLoad /\ IdleRun /\ IdlePeriod /\ IdleMmm /\ IdleRegistry /\ IdleUtil
OnlyLoad == IdleLsa /\ IdleRun /\ IdlePeriod /\ IdleMmm /\ IdleRegistry /\ IdleUtil
OnlyRun == IdleLsa /\ IdleLoad /\ IdlePeriod /\ IdleMmm /\ IdleRegistry /\ IdleUtil
OnlyPeriod == IdleLsa /\ IdleLoad /\ IdleRun /\ IdleMmm /\ IdleRegistry /\ IdleUtil
OnlyMmm == IdleLsa /\ IdleLoad /\ IdleRun /\ IdlePeriod /\ IdleRegistry /\ IdleUtil
IdleEngine == IdleLsa /\ IdleLoad /\ IdleRun /\ IdlePeriod /\ IdleMmm
OnlyLu == IdleEngine /\ IdleDb /\ IdleSel /\ IdleUtil
OnlyDb == IdleEngine /\ IdleLu /\ IdleSel /\ IdleUtil
OnlySel == IdleEngine /\ IdleLu /\ IdleDb /\ IdleUtil
OnlyDw == IdleEngine /\ IdleRegistry /\ IdleOpen /\ IdleWf /\ IdleHot
OnlyOpen == IdleEngine /\ IdleRegistry /\ IdleDw /\ IdleWf /\ IdleHot
OnlyWf == IdleEngine /\ IdleRegistry /\ IdleDw /\ IdleOpen /\ IdleHot
OnlyHot == IdleEngine /\ IdleRegistry /\ IdleDw /\ IdleOpen /\ IdleWf

Categories == {"climate", "soilTerrain"}
CategoryGrid(cat) == IF cat = "climate" THEN ClimX ELSE SoilX

\* The score at cell x of the field number s of a grid: the fields differ from
\* cell to cell, and every input score occurs at every cell.
FieldAt(s, x) == ValSeq[((s - 1 + x) % NVal) + 1]

\* SuitabilityCriteria.compute(): the criterion's score on its native grid.
CriterionCompute(c) ==
    [x \in CategoryGrid(c.category) |->
        FieldAt(c.score, IF c.category = "climate" THEN x \div GridRatio ELSE x)]

\* {k: v for k, v in lsa.criteria.items() if v.category == cat}
RECURSIVE CriteriaOf(_, _)
CriteriaOf(sc, cat) ==
    IF sc = <<>> THEN <<>>
    ELSE (IF Head(sc).category = cat THEN <<Head(sc)>> ELSE <<>>) \o CriteriaOf(Tail(sc), cat)

\* _compute_criteria: out[c.name] = c.compute() for c in sc.values().
RECURSIVE ComputeInto(_, _)
ComputeInto(out, sc) ==
    IF sc = <<>> THEN out
    ELSE ComputeInto(DsSet(out, Head(sc).name, CriterionCompute(Head(sc))), Tail(sc))
ComputeCriteria(sc) == ComputeInto(<<>>, sc)

\* [c.weight for c in lsa.criteria.values() if c.category == cat]
CategoryWeights(sc, cat) == [i \in DOMAIN CriteriaOf(sc, cat) |-> CriteriaOf(sc, cat)[i].weight]

\* lsapy's aggregate(ds, method="wgmean", weights=ws): cell by cell over the
\* variables of ds in order; a weight list of another length is an error.
Aggregate(ds, ws) ==
    IF ds = <<>> \/ Len(ds) # Len(ws) THEN [ok |-> FALSE, f |-> <<>>]
    ELSE [ok |-> TRUE,
          f |-> [x \in DOMAIN ds[1].f |-> wgmean([i \in DOMAIN ds |-> ds[i].f[x]], ws)]]

\* lsa.weights_by_category[cat]: the total weight of the category's criteria.
WeightsByCategory(sc, cat) == SumSeq(CategoryWeights(sc, cat))

\* Mutant of FinalWeights: the two category weights in the other order.
FinalWeightsSwapped(sc) == <<WeightsByCategory(sc, "soilTerrain"), WeightsByCategory(sc, "climate")>>

\* kwargs={"weights": [lsa.weights_by_category[c] for c in ["climate", "soilTerrain"]]}
FinalWeights(sc) == <<WeightsByCategory(sc, "climate"), WeightsByCategory(sc, "soilTerrain")>>

\* Mutant of StoreSoil: the soil/terrain scores are taken through the climate
\* grid (each cell gets the score at the centre of its climate cell).
RECURSIVE StoreSoilRegridded(_, _)
StoreSoilRegridded(data, sc_soil) ==
    IF sc_soil = <<>> THEN data
    ELSE StoreSoilRegridded(
            DsSet(data, Head(sc_soil).name,
                  [x \in SoilX |-> Head(sc_soil).f[GridRatio * (x \div GridRatio) + GridRatio \div 2]]),
            Tail(sc_soil))

\* for v in sc_soil.data_vars: lsa.data[v] = sc_soil[v]
RECURSIVE StoreSoil(_, _)
StoreSoil(data, sc_soil) ==
    IF sc_soil = <<>> THEN data
    ELSE StoreSoil(DsSet(data, Head(sc_soil).name, Head(sc_soil).f), Tail(sc_soil))

\* for v in sc_clim.data_vars: lsa.data[v] = sc_clim[v].interp_like(soil, method="nearest")
RECURSIVE StoreClim(_, _)
StoreClim(data, sc_clim) ==
    IF sc_clim = <<>> THEN data
    ELSE StoreClim(DsSet(data, Head(sc_clim).name, InterpNearest(Head(sc_clim).f)), Tail(sc_clim))

\* lsa.data before the final aggregation.
LsaData(sc_soil, sc_clim, soil, clim) ==
    DsSet(DsSet(StoreClim(StoreSoil(<<>>, sc_soil), sc_clim),
                "climate", InterpNearest(clim)),
          "soilTerrain", soil)

\* Mutant of FinalAggregate: a NaN category score is skipped, as the reductions
\* of xarray do by default (skipna), instead of propagated.
FinalAggregateSkipNa(data, ws) ==
    DsSet(data, "suitability",
          [x \in SoilX |->
              LET c == DsGet(data, "climate")[x]
                  t == DsGet(data, "soilTerrain")[x]
              IN IF c.k = "nan" THEN t ELSE IF t.k = "nan" THEN c ELSE wgmean(<<c, t>>, ws)])

\* lsa._aggregate(data, agg_on={"suitability": ["climate", "soilTerrain"]},
\*                methods="wgmean", keep_vars=True, kwargs={"weights": ws})
FinalAggregate(data, ws) ==
    DsSet(data, "suitability",
          [x \in SoilX |-> wgmean(<<DsGet(data, "climate")[x], DsGet(data, "soilTerrain")[x]>>, ws)])

NoCall == [scored |-> <<>>, weights |-> <<>>, ok |-> FALSE, f |-> <<>>]
CallOf(ds, ws) == [scored |-> ds, weights |-> ws, ok |-> Aggregate(ds, ws).ok, f |-> Aggregate(ds, ws).f]

\* LandUse._run_lsa on a catalog whose indicators are bound.
RunLsa ==
    /\ lsaStatus = "ready"
    /\ LET sc_soil == ComputeCriteria(CriteriaOf(criteria, "soilTerrain"))
           soil == CallOf(sc_soil, CategoryWeights(criteria, "soilTerrain"))
           sc_clim == ComputeCriteria(CriteriaOf(criteria, "climate"))
           clim == CallOf(sc_clim, CategoryWeights(criteria, "climate"))
       IN /\ soilCall' = soil
          /\ climCall' = IF soil.ok THEN clim ELSE NoCall
          /\ IF soil.ok /\ clim.ok
             THEN /\ lsaStatus' = "done"
                  /\ lsaData' = FinalAggregate(LsaData(sc_soil, sc_clim, soil.f, clim.f),
                                               FinalWeights(criteria))
             ELSE /\ lsaStatus' = "raised"
                  /\ lsaData' = <<>>
    /\ UNCHANGED <<criteria, notLsa>>

\* The catalogs: NCrit criteria, at least one of each category.
Criterion(i, name) ==
    {[key |-> Keys[i], name |-> name, category |-> cat, weight |-> w, score |-> s] :
        cat \in Categories, w \in 1..MaxWeight, s \in 1..NVal}
HasBothCategories(sc) == \A cat \in Categories : \E i \in DOMAIN sc : sc[i].category = cat

\* Catalogs as the criteria modules declare them: name equal to the dict key.
Catalogs == {sc \in [1..NCrit -> UNION {Criterion(i, Keys[i]) : i \in 1..NCrit}] :
                /\ \A i \in 1..NCrit : sc[i].key = Keys[i] /\ sc[i].name = Keys[i]
                /\ HasBothCategories(sc)}

\* Catalogs whose criteria carry any name: a name other than the dict key, or
\* the name of another criterion.
CatalogsAnyName ==
    {sc \in [1..NCrit -> UNION {Criterion(i, Keys[j]) : i \in 1..NCrit, j \in 1..NCrit}] :
        /\ \A i \in 1..NCrit : sc[i].key = Keys[i]
        /\ HasBothCategories(sc)}

Init ==
    /\ criteria \in Catalogs
    /\ lsaStatus = "ready"
    /\ lsaData = <<>>
    /\ soilCall = NoCall
    /\ climCall = NoCall
    /\ OnlyLsa

Next == RunLsa

Spec == Init /\ [][Next]_vars

InitAnyName ==
    /\ criteria \in CatalogsAnyName
    /\ lsaStatus = "ready"
    /\ lsaData = <<>>
    /\ soilCall = NoCall
    /\ climCall = NoCall
    /\ OnlyLsa

SpecAnyName == InitAnyName /\ [][Next]_vars

\* ------------------------------------------------------------------ claims on _run_lsa
\* The climate cell nearest to the soil cell x.
NearestCell(x) == CHOOSE c \in ClimX : \A o \in ClimX : Abs(c - x) <= Abs(o - x)
\* x lies within the range of the climate grid's cell centres.
InClimRange(x) == \E lo \in ClimX : \E hi \in ClimX : lo <= x /\ x <= hi

\* The score of criterion c that belongs to the output cell x.
ScoreAt(c, x) ==
    IF c.category = "climate" THEN CriterionCompute(c)[NearestCell(x)] ELSE CriterionCompute(c)[x]

RECURSIVE TotalWeightFrom(_, _)
TotalWeightFrom(i, cat) ==
    IF i > NCrit THEN 0
    ELSE (IF criteria[i].category = cat THEN criteria[i].weight ELSE 0) + TotalWeightFrom(i + 1, cat)
TotalWeight(cat) == TotalWeightFrom(1, cat)

Suitability(x) == DsGet(lsaData, "suitability")[x]
CategoryScore(cat, x) == DsGet(lsaData, cat)[x]

\* C1: the final suitability is, at every cell, the weighted geometric mean of
\* the two category scores climate and soilTerrain, climate weighted by the
\* total weight of the climate criteria and soilTerrain by the total weight of
\* the soil/terrain criteria; soilTerrain is the soil category score itself.
C1_FinalIsWgmeanOfCategories ==
    lsaStatus = "done" =>
        /\ DsGet(lsaData, "soilTerrain") = soilCall.f
        /\ \A x \in SoilX :
              Suitability(x) = wgmean(<<CategoryScore("climate", x), CategoryScore("soilTerrain", x)>>,
                                      <<TotalWeight("climate"), TotalWeight("soilTerrain")>>)

\* A run where swapping the two category weights would change the result.
C1_Witness ==
    /\ lsaStatus = "done"
    /\ TotalWeight("climate") # TotalWeight("soilTerrain")
    /\ \E x \in SoilX :
          /\ CategoryScore("climate", x).k = "pos"
          /\ CategoryScore("soilTerrain", x).k = "pos"
          /\ Suitability(x).k = "pos"
          /\ Suitability(x) # wgmean(<<CategoryScore("climate", x), CategoryScore("soilTerrain", x)>>,
                                     <<TotalWeight("soilTerrain"), TotalWeight("climate")>>)
          /\ \A i \in 1..NCrit : Suitability(x) # ScoreAt(criteria[i], x)

\* The aggregate call of one category gets the scores of exactly the criteria
\* of the category, in catalog order, and their weights in the same order.
CallAligned(call, cat) ==
    LET cs == CriteriaOf(criteria, cat)
    IN /\ Len(call.scored) = Len(cs)
       /\ Len(call.weights) = Len(call.scored)
       /\ \A i \in DOMAIN cs :
             /\ call.scored[i].f = CriterionCompute(cs[i])
             /\ call.weights[i] = cs[i].weight

\* C2: each category score is the wgmean over exactly the scores of the
\* criteria of that category, the i-th weight being the weight of the
\* criterion whose score is the i-th input, for every catalog.
C2_WeightsAligned ==
    lsaStatus # "ready" =>
        /\ CallAligned(soilCall, "soilTerrain")
        /\ soilCall.ok => CallAligned(climCall, "climate")

\* C3 as claimed: wherever a criterion scores exactly 0, its category score
\* and the final suitability are exactly 0.
C3_VetoAnyZero ==
    lsaStatus = "done" =>
        \A i \in 1..NCrit : \A x \in SoilX :
            ScoreAt(criteria[i], x) = Zero =>
                /\ CategoryScore(criteria[i].category, x) = Zero
                /\ Suitability(x) = Zero

NoNaNAt(cat, x) == \A j \in 1..NCrit : criteria[j].category = cat => ScoreAt(criteria[j], x) # NaN

\* C3 amended: a 0 vetoes unless a NaN takes part.  The category score is
\* exactly 0 where one of its criteria scores 0 and none of them is NaN (for
\* the climate category: at a cell within the range of the climate grid), and
\* the suitability is exactly 0 where moreover no criterion at all is NaN.
C3_VetoUnlessNaN ==
    lsaStatus = "done" =>
        \A i \in 1..NCrit : \A x \in SoilX :
            (/\ ScoreAt(criteria[i], x) = Zero
             /\ NoNaNAt(criteria[i].category, x)
             /\ criteria[i].category = "climate" => InClimRange(x))
            => /\ CategoryScore(criteria[i].category, x) = Zero
               /\ (InClimRange(x) /\ \A cat \in Categories : NoNaNAt(cat, x)) => Suitability(x) = Zero

\* A climate criterion is 0 at the nearest climate cell and not at another one,
\* a soil criterion is positive there, and the suitability is 0.
C3_Witness ==
    /\ lsaStatus = "done"
    /\ \E i \in 1..NCrit : \E x \in SoilX :
          /\ criteria[i].category = "climate"
          /\ ScoreAt(criteria[i], x) = Zero
          /\ \E c \in ClimX : CriterionCompute(criteria[i])[c] # Zero
          /\ \E j \in 1..NCrit : criteria[j].category = "soilTerrain" /\ ScoreAt(criteria[j], x).k = "pos"
          /\ CategoryScore("climate", x) = Zero
          /\ Suitability(x) = Zero

\* C4: wherever a criterion's score is NaN (for a climate criterion, at the
\* nearest climate cell), its category score and the suitability are NaN.
C4_NaNPropagates ==
    lsaStatus = "done" =>
        \A i \in 1..NCrit : \A x \in SoilX :
            ScoreAt(criteria[i], x) = NaN =>
                /\ CategoryScore(criteria[i].category, x) = NaN
                /\ Suitability(x) = NaN

\* One criterion is NaN and a criterion of the other category is exactly 0 at
\* a cell within the climate grid: the suitability is NaN, not 0.
C4_Witness ==
    /\ lsaStatus = "done"
    /\ \E i \in 1..NCrit : \E j \in 1..NCrit : \E x \in SoilX :
          /\ InClimRange(x)
          /\ criteria[i].category # criteria[j].category
          /\ ScoreAt(criteria[i], x) = NaN
          /\ ScoreAt(criteria[j], x) = Zero
          /\ CategoryScore(criteria[j].category, x) = Zero
          /\ Suitability(x) = NaN

ClimateCriteria == {i \in 1..NCrit : criteria[i].category = "climate"}
SoilCriteria == {i \in 1..NCrit : criteria[i].category = "soilTerrain"}

\* The soil/terrain variables are stored as computed on their own grid.
SoilStoredNative ==
    /\ \A i \in SoilCriteria : DsGet(lsaData, criteria[i].name) = CriterionCompute(criteria[i])
    /\ DsGet(lsaData, "soilTerrain") = soilCall.f

\* C5 as claimed: every climate variable holds, at each soil cell, the value of
\* the nearest climate cell; the soil/terrain variables are stored as computed.
C5_NearestEverywhere ==
    lsaStatus = "done" =>
        /\ \A i \in ClimateCriteria :
              DsGet(lsaData, criteria[i].name) = [x \in SoilX |-> CriterionCompute(criteria[i])[NearestCell(x)]]
        /\ DsGet(lsaData, "climate") = [x \in SoilX |-> climCall.f[NearestCell(x)]]
        /\ SoilStoredNative

\* C5 amended: every climate variable is defined on the soil grid and holds the
\* value of the nearest climate cell at each soil cell within the range of the
\* climate grid's coordinates, and NaN at the soil cells outside that range;
\* the soil/terrain variables are stored as computed on their own grid.
C5_NearestWithinRange ==
    lsaStatus = "done" =>
        /\ \A i \in ClimateCriteria :
              DsGet(lsaData, criteria[i].name) =
                  [x \in SoilX |-> IF InClimRange(x) THEN CriterionCompute(criteria[i])[NearestCell(x)] ELSE NaN]
        /\ DsGet(lsaData, "climate") =
              [x \in SoilX |-> IF InClimRange(x) THEN climCall.f[NearestCell(x)] ELSE NaN]
        /\ SoilStoredNative

\* A climate criterion whose two nearest-cell values differ between two soil
\* cells within the range, stored together with a non-uniform soil score.
C5_Witness ==
    /\ lsaStatus = "done"
    /\ \E i \in ClimateCriteria : \E x \in SoilX : \E y \in SoilX :
          /\ InClimRange(x) /\ InClimRange(y)
          /\ DsGet(lsaData, criteria[i].name)[x] # DsGet(lsaData, criteria[i].name)[y]
          /\ DsGet(lsaData, criteria[i].name)[x].k = "pos"
          /\ DsGet(lsaData, criteria[i].name)[y].k = "pos"
    /\ \E j \in SoilCriteria : \E x \in SoilX :
          /\ ~InClimRange(x)
          /\ DsGet(lsaData, criteria[j].name)[x].k = "pos"

\* ------------------------------------------------------------------ _load_criteria_indicators
\* Largest number of _run_lsa calls made on one catalog.
MaxCalls == 3

LoadScenarios == {"historical", "ssp126"}
\* model=None, or one realization.
LoadModels == {"None", "ACCESS-CM2"}
Resolutions == {"1km", "5km"}
CallArgs == [scenario : LoadScenarios, model : LoadModels, resolution : Resolutions]

\* clim_res = {"5km": "25km", "1km": "5km"}.get(self.resolution)
ClimRes(res) == IF res = "5km" THEN "25km" ELSE "5km"

Unbound == [bound |-> FALSE, scenario |-> "-", res |-> "-", realization |-> "-", ops |-> 0, call |-> 0]

\* Mutant of BindIndicator: an indicator already bound is kept.
BindIfUnbound(old, c, args, call) ==
    IF old.bound THEN old
    ELSE IF c.category = "climate"
    THEN [bound |-> TRUE, scenario |-> args.scenario, res |-> ClimRes(args.resolution),
          realization |-> IF args.model # "None" THEN args.model ELSE "all", ops |-> 0, call |-> call]
    ELSE [bound |-> TRUE, scenario |-> "-", res |-> args.resolution,
          realization |-> "-", ops |-> 0, call |-> call]

\* val.indicator = self._load_indicator(file, variable), then for a climate
\* criterion and a given model .sel(realization=model): the file is
\* <file>_<scenario>_<clim_res>.nc for climate, <file>_NZ<resolution>.nc for
\* soilTerrain.  The indicator bound before (old) is dropped.
BindIndicator(old, c, args, call) ==
    IF c.category = "climate"
    THEN [bound |-> TRUE, scenario |-> args.scenario, res |-> ClimRes(args.resolution),
          realization |-> IF args.model # "None" THEN args.model ELSE "all", ops |-> 0, call |-> call]
    ELSE [bound |-> TRUE, scenario |-> "-", res |-> args.resolution,
          realization |-> "-", ops |-> 0, call |-> call]

\* The file of the criterion does not exist: _load_indicator raises.
FileMissing(cat, c, args) == c.category = "climate" /\ args.scenario = cat.missing

\* The loop over sc.items(): the bindings made before a raise stay.
RECURSIVE LoadFrom(_, _, _, _, _)
LoadFrom(i, cat, ind, args, call) ==
    IF i > Len(cat.crit) THEN [ok |-> TRUE, ind |-> ind]
    ELSE LET c == cat.crit[i]
         IN IF c.key = "preprocess" THEN LoadFrom(i + 1, cat, ind, args, call)
            ELSE IF c.key \notin cat.mapped THEN [ok |-> FALSE, ind |-> ind]
            ELSE IF c.category \notin {"climate", "soilTerrain"} THEN [ok |-> FALSE, ind |-> ind]
            ELSE IF FileMissing(cat, c, args) THEN [ok |-> FALSE, ind |-> ind]
            ELSE LoadFrom(i + 1, cat, [ind EXCEPT ![i] = BindIndicator(ind[i], c, args, call)], args, call)

\* preprocess = self._criteria_indicators.get("preprocess"): each operation is
\* applied to the indicator of its criterion; a key that is no criterion raises.
Preprocess(cat, r) ==
    IF ~r.ok \/ cat.pre = "none" THEN r
    ELSE IF \E i \in DOMAIN cat.crit : cat.crit[i].key = cat.pre
    THEN [ok |-> TRUE,
          ind |-> [i \in DOMAIN r.ind |->
                     IF cat.crit[i].key = cat.pre THEN [r.ind[i] EXCEPT !.ops = @ + 1] ELSE r.ind[i]]]
    ELSE [ok |-> FALSE, ind |-> r.ind]

\* LandUse._load_criteria_indicators(scenario, model).
LoadCriteriaIndicators(cat, ind, args, call) == Preprocess(cat, LoadFrom(1, cat, ind, args, call))

\* What the Score step reads of an indicator: the data, not when it was bound.
IndicatorData(b) == [scenario |-> b.scenario, res |-> b.res, realization |-> b.realization, ops |-> b.ops]

\* The Score step: c.compute() raises ValueError on an unbound indicator; the
\* dataset returned is a function of the indicators read.
Score(ind) ==
    IF \E i \in DOMAIN ind : ~ind[i].bound THEN [status |-> "raised", data |-> <<>>]
    ELSE [status |-> "done", data |-> [i \in DOMAIN ind |-> IndicatorData(ind[i])]]

\* The result of _run_lsa on a catalog in state ind.
RunResult(cat, ind, args, call) ==
    LET r == LoadCriteriaIndicators(cat, ind, args, call)
    IN IF r.ok THEN Score(r.ind) ELSE [status |-> "raised", data |-> <<>>]

\* One _run_lsa call of a land use sharing the catalog.
RunLsaCall(args) ==
    /\ nCalls < MaxCalls
    /\ LET r == LoadCriteriaIndicators(catalog, indicator, args, nCalls + 1)
       IN /\ indicator' = r.ind
          /\ lastLoad' = IF r.ok THEN "ok" ELSE "raised"
          /\ lastResult' = RunResult(catalog, indicator, args, nCalls + 1)
    /\ nCalls' = nCalls + 1
    /\ lastArgs' = args
    /\ UNCHANGED <<catalog, notLoad>>

\* The catalogs: two criteria and possibly one under the dict key
\* "preprocess"; a criterion may lack its entry in the indicator mapping or
\* carry an unknown category; the mapping may hold preprocess operations for a
\* criterion or for a key that is no criterion; a scenario's files may miss.
LoadCatalogs ==
    {[crit |-> <<[key |-> "tn_mean", category |-> c1], [key |-> "slope", category |-> "soilTerrain"]>> \o x,
      mapped |-> m, pre |-> p, missing |-> f] :
        c1 \in {"climate", "other"},
        x \in {<<>>, <<[key |-> "preprocess", category |-> "climate"]>>},
        m \in {{"tn_mean", "slope"}, {"tn_mean"}},
        p \in {"none", "tn_mean", "ph"},
        f \in {"none", "ssp126"}}

InitLoad ==
    /\ catalog \in LoadCatalogs
    /\ indicator = [i \in DOMAIN catalog.crit |-> Unbound]
    /\ nCalls = 0
    /\ lastArgs = <<>>
    /\ lastLoad = "none"
    /\ lastResult = <<>>
    /\ OnlyLoad

NextLoad == \E args \in CallArgs : RunLsaCall(args)

SpecLoad == InitLoad /\ [][NextLoad]_vars

\* ------------------------------------------------------------------ claims on the catalog
\* The indicator a criterion must hold after a load for args.
BoundFor(b, c, args) ==
    /\ b.bound
    /\ b.call = nCalls
    /\ IF c.category = "climate"
       THEN /\ b.scenario = args.scenario
            /\ b.res = ClimRes(args.resolution)
            /\ b.realization = (IF args.model = "None" THEN "all" ELSE args.model)
       ELSE b.res = args.resolution

\* C6: whenever _load_criteria_indicators returns normally, every criterion of
\* the catalog has been bound during that call from the file of the current
\* (scenario, resolution, model), and a criterion without an entry in the
\* indicator mapping or with an unknown category makes the call raise.
C6_BoundOnReturn ==
    nCalls > 0 =>
        /\ lastLoad = "ok" =>
              \A i \in DOMAIN catalog.crit : BoundFor(indicator[i], catalog.crit[i], lastArgs)
        /\ (\E i \in DOMAIN catalog.crit :
               \/ catalog.crit[i].key \notin catalog.mapped
               \/ catalog.crit[i].category \notin {"climate", "soilTerrain"})
           => lastLoad = "raised"

\* C8: the dataset a call returns is the one the same call returns on a
\* catalog no call has touched: it depends on (scenario, model, resolution)
\* and the indicator files only, so two calls with the same arguments return
\* identical datasets whatever was called in between.
C8_ResultIndependentOfHistory ==
    nCalls > 0 =>
        lastResult = RunResult(catalog, [i \in DOMAIN catalog.crit |-> Unbound], lastArgs, nCalls)

\* A third call that returns a dataset with a preprocessed indicator, after
\* calls with another scenario and resolution left theirs in the catalog.
C8_Witness ==
    /\ nCalls = 3
    /\ lastResult.status = "done"
    /\ \E i \in DOMAIN indicator :
          /\ indicator[i].ops = 1
          /\ indicator[i].scenario = "ssp126"
          /\ indicator[i].res = "5km"

\* ------------------------------------------------------------------ run_lsa
\* The scenario list run_lsa is called with, and climateDS[...].model.
Scenarios == <<"historical", "ssp126", "ssp245">>
Models == <<"ACCESS-CM2", "AWI-CM-1-1-MR">>

\* <name>_suitability_<scen>_<res>_v<version>.nc at 5km,
\* <name>_suitability_<scen>_<m>_<res>_v<version>.nc at 1km.
SuitabilityFile(res, s, m) ==
    IF res = "5km" THEN <<"suitability", s, "-">> ELSE <<"suitability", s, m>>
\* <name>_soilTerrain-suitability_<res>_v<version>.nc
SoilFile == <<"soilTerrain-suitability", "-", "-">>

OutputFiles(res) ==
    IF res = "5km"
    THEN {SuitabilityFile(res, Scenarios[i], "-") : i \in DOMAIN Scenarios}
    ELSE {SuitabilityFile(res, Scenarios[i], Models[j]) : i \in DOMAIN Scenarios, j \in DOMAIN Models}
         \cup {SoilFile}

NoFile == [state |-> "none", scenario |-> "-", model |-> "-", vars |-> "-"]
\* A file left by an earlier run.
OldFile == [state |-> "old", scenario |-> "-", model |-> "-", vars |-> "-"]
Written(o, v) == [state |-> "written", scenario |-> o.scenario, model |-> o.model, vars |-> v]
\* A file opened for writing and not completed.
PartialFile == [state |-> "partial", scenario |-> "-", model |-> "-", vars |-> "-"]

CurScenario == Scenarios[scenIdx]
CurModel == IF resolution = "5km" THEN "-" ELSE Models[modelIdx]
\* fp of the current iteration.
CurFile == SuitabilityFile(resolution, CurScenario, CurModel)

\* The loop position after the current iteration: <<scenIdx, modelIdx, phase>>.
NextPosition ==
    IF resolution = "1km" /\ modelIdx < Len(Models) THEN <<scenIdx, modelIdx + 1, "check">>
    ELSE IF scenIdx < Len(Scenarios) THEN <<scenIdx + 1, 1, "check">>
    ELSE <<scenIdx, modelIdx, "done">>

Advance ==
    /\ scenIdx' = NextPosition[1]
    /\ modelIdx' = NextPosition[2]
    /\ phase' = NextPosition[3]

\* if not rerun and fp.exists(): continue
SkipExisting ==
    /\ phase = "check"
    /\ ~rerun /\ files[CurFile].state # "none"
    /\ filesAtIter' = files
    /\ Advance
    /\ UNCHANGED <<resolution, rerun, files, outData, soilEvals, lsaReturned, filesAtStart>>
    /\ UNCHANGED notRun

\* Mutant of StartRun: the iteration is run whether or not the file exists.
StartRunAlways ==
    /\ phase = "check"
    /\ filesAtIter' = files
    /\ phase' = "run"
    /\ UNCHANGED <<resolution, rerun, files, scenIdx, modelIdx, outData, soilEvals, lsaReturned, filesAtStart>>
    /\ UNCHANGED notRun

\* The iteration goes on to out = _run(scen, model=m).
StartRun ==
    /\ phase = "check"
    /\ rerun \/ files[CurFile].state = "none"
    /\ filesAtIter' = files
    /\ phase' = "run"
    /\ UNCHANGED <<resolution, rerun, files, scenIdx, modelIdx, outData, soilEvals, lsaReturned, filesAtStart>>
    /\ UNCHANGED notRun

\* out = _run(scen, model=m) returns: _run_lsa has evaluated and aggregated
\* the soil/terrain criteria (sc_soil, soil) and the result is in memory.
RunReturns ==
    /\ phase = "run"
    /\ outData' = [scenario |-> CurScenario, model |-> CurModel]
    /\ soilEvals' = soilEvals + 1
    /\ lsaReturned' = lsaReturned + 1
    /\ phase' = IF resolution = "1km" /\ modelIdx = 1 /\ CurScenario = "historical"
                THEN "write_soil" ELSE "write"
    /\ UNCHANGED <<resolution, rerun, files, scenIdx, modelIdx, filesAtIter, filesAtStart>>
    /\ UNCHANGED notRun

\* Mutant of RunRaises: the output file is opened before the result is computed.
RunRaisesFileOpened ==
    /\ phase = "run"
    /\ phase' = "raised"
    /\ files' = [files EXCEPT ![CurFile] = PartialFile]
    /\ \E e \in {0, 1} : soilEvals' = soilEvals + e
    /\ UNCHANGED <<resolution, rerun, scenIdx, modelIdx, outData, lsaReturned, filesAtIter, filesAtStart>>
    /\ UNCHANGED notRun

\* out = _run(scen, model=m) raises, while loading the indicators (before the
\* soil/terrain criteria are evaluated) or later: run_lsa ends with the error.
RunRaises ==
    /\ phase = "run"
    /\ phase' = "raised"
    /\ \E e \in {0, 1} : soilEvals' = soilEvals + e
    /\ UNCHANGED <<resolution, rerun, files, scenIdx, modelIdx, outData, lsaReturned, filesAtIter, filesAtStart>>
    /\ UNCHANGED notRun

\* write_netcdf(out[soil_vars], fp_hist): first model of the historical scenario.
WriteSoil ==
    /\ phase = "write_soil"
    /\ files' = [files EXCEPT ![SoilFile] = Written(outData, "soilTerrain")]
    /\ phase' = "write"
    /\ UNCHANGED <<resolution, rerun, scenIdx, modelIdx, outData, soilEvals, lsaReturned, filesAtIter, filesAtStart>>
    /\ UNCHANGED notRun

\* write_netcdf(out, fp) at 5km, write_netcdf(out[non-soil variables], fp) at 1km.
WriteResult ==
    /\ phase = "write"
    /\ files' = [files EXCEPT ![CurFile] = Written(outData, IF resolution = "5km" THEN "all" ELSE "climate")]
    /\ Advance
    /\ UNCHANGED <<resolution, rerun, outData, soilEvals, lsaReturned, filesAtIter, filesAtStart>>
    /\ UNCHANGED notRun

InitRun ==
    /\ resolution \in Resolutions
    /\ rerun \in BOOLEAN
    /\ files \in [OutputFiles(resolution) -> {NoFile, OldFile}]
    /\ scenIdx = 1
    /\ modelIdx = 1
    /\ phase = "check"
    /\ outData = <<>>
    /\ soilEvals = 0
    /\ lsaReturned = 0
    /\ filesAtIter = files
    /\ filesAtStart = files
    /\ OnlyRun

NextRun == SkipExisting \/ StartRun \/ RunReturns \/ RunRaises \/ WriteSoil \/ WriteResult

SpecRun == InitRun /\ [][NextRun]_vars

\* ------------------------------------------------------------------ claims on run_lsa
\* C7: during one run_lsa call over several scenarios (and models) the
\* soil/terrain criteria are evaluated and aggregated at most once.
C7_SoilEvaluatedAtMostOnce == soilEvals <= 1

\* The files of the iterations run_lsa has not reached.
Later(f) ==
    \E i \in DOMAIN Scenarios : \E j \in DOMAIN Models :
        /\ f = SuitabilityFile(resolution, Scenarios[i], IF resolution = "5km" THEN "-" ELSE Models[j])
        /\ i > scenIdx \/ (i = scenIdx /\ resolution = "1km" /\ j > modelIdx)

\* C9: when computing one scenario (or scenario/model) raises, no file has
\* changed since that iteration began: the file of the failing scenario/model
\* and the files of the scenarios not reached are what they were before the
\* call, and no file is partially written.
C9_FailureLeavesFiles ==
    phase = "raised" =>
        /\ files = filesAtIter
        /\ files[CurFile] = filesAtStart[CurFile]
        /\ \A f \in DOMAIN files : Later(f) => files[f] = filesAtStart[f]
        /\ \A f \in DOMAIN files : files[f].state # "partial"

\* A rerun that fails on a later scenario: the earlier scenario's file is
\* rewritten, the failing scenario's old file is still there.
C9_Witness ==
    /\ phase = "raised"
    /\ rerun
    /\ scenIdx > 1
    /\ files[CurFile] = OldFile
    /\ \E f \in DOMAIN files : files[f].state = "written" /\ filesAtStart[f] = OldFile

\* ------------------------------------------------------------------ period_mmm_change_robustness
\* The years the time axis of the data spans.
FirstYear == 1960
LastYear == 2105
MonthsPerYear == 12

\* A time step is a month, counted from year 0.
TimeOf(year, month) == MonthsPerYear * year + (month - 1)
YearOf(t) == t \div MonthsPerYear

\* data_hist, data_near, data_mid, data_long: the slice bounds as written.
Periods ==
    <<[name |-> "hist", from |-> 1980, to |-> 2009],
      [name |-> "near", from |-> 2010, to |-> 2039],
      [name |-> "mid", from |-> 2040, to |-> 2069],
      [name |-> "long", from |-> 2070, to |-> 2099]>>

\* Mutant of InSlice: the end of the slice is excluded, as in a Python range.
InSliceEndExcluded(t, p) ==
    TimeOf(p.from, 1) <= t /\ t < TimeOf(p.to, 1)

\* data.sel(time=slice("<from>", "<to>")): a year string stands for the whole
\* year, and both ends are included.
InSlice(t, p) ==
    TimeOf(p.from, 1) <= t /\ t <= TimeOf(p.to, MonthsPerYear)

PeriodsOf(t) == {Periods[i].name : i \in {j \in DOMAIN Periods : InSlice(t, Periods[j])}}

\* The four selections applied to the next time step of the data.
SelectPeriods ==
    /\ timeStep < TimeOf(LastYear, MonthsPerYear)
    /\ timeStep' = timeStep + 1
    /\ inPeriods' = PeriodsOf(timeStep')
    /\ UNCHANGED notPeriod

InitPeriod ==
    /\ timeStep = TimeOf(FirstYear, 1)
    /\ inPeriods = PeriodsOf(timeStep)
    /\ OnlyPeriod

NextPeriod == SelectPeriods

SpecPeriod == InitPeriod /\ [][NextPeriod]_vars

\* ------------------------------------------------------------------ claims on the periods
\* C10: the four time slices partition the years 1980..2099: a time step with
\* a year in that range falls in exactly one slice, any other in none.
C10_SlicesPartition ==
    IF YearOf(timeStep) \in 1980..2099
    THEN Cardinality(inPeriods) = 1
    ELSE inPeriods = {}

\* December 2009 is selected, and falls in the historical slice.
C10_Witness ==
    /\ timeStep = TimeOf(2009, 12)
    /\ inPeriods = {"hist"}

\* ------------------------------------------------------------------ ensemble values
\* A value at one cell: NaN, +/-inf, or the reduced fraction n/d (d > 0).
Inf(sign) == [k |-> "inf", n |-> sign, d |-> 1]
Rat(n, d) ==
    IF n = 0 THEN [k |-> "num", n |-> 0, d |-> 1]
    ELSE LET g == GCD(Abs(n), d)
         IN [k |-> "num", n |-> n \div g, d |-> d \div g]
Num(i) == Rat(i, 1)
Sign(n) == IF n > 0 THEN 1 ELSE IF n < 0 THEN 0 - 1 ELSE 0

\* a - b
RSub(a, b) ==
    IF a.k = "nan" \/ b.k = "nan" THEN NaN
    ELSE Rat(a.n * b.d - b.n * a.d, a.d * b.d)

\* a / b * 100: x/0 is +/-inf, 0/0 is NaN.
RelPct(a, b) ==
    IF a.k = "nan" \/ b.k = "nan" THEN NaN
    ELSE IF b.n = 0 THEN (IF a.n = 0 THEN NaN ELSE Inf(Sign(a.n)))
    ELSE Rat(100 * a.n * b.d * Sign(b.n), a.d * Abs(b.n))

\* The sum of the finite values of a sequence, as <<numerator, denominator>>.
RECURSIVE RSum(_)
RSum(xs) ==
    IF xs = <<>> THEN <<0, 1>>
    ELSE LET r == RSum(Tail(xs))
             x == Head(xs)
         IN IF x.k = "num" THEN <<x.n * r[2] + r[1] * x.d, x.d * r[2]>> ELSE r

CountWhere(xs, Test(_)) == Cardinality({i \in DOMAIN xs : Test(xs[i])})
NotNaN(x) == x.k # "nan"

\* Mutant of MeanSkipNa: a NaN counts as 0 and stays in the denominator.
MeanNaNAsZero(xs) ==
    LET sum == RSum(xs)
    IN IF xs = <<>> THEN NaN ELSE Rat(sum[1], sum[2] * Len(xs))

\* DataArray.mean(dim) at one cell: NaN entries are skipped (skipna), and the
\* mean of no value is NaN.
MeanSkipNa(xs) ==
    LET n == CountWhere(xs, NotNaN)
        infs == {xs[i].n : i \in {j \in DOMAIN xs : xs[j].k = "inf"}}
        sum == RSum(xs)
    IN IF n = 0 THEN NaN
       ELSE IF Cardinality(infs) = 2 THEN NaN
       ELSE IF Cardinality(infs) = 1 THEN Inf(CHOOSE sg \in infs : TRUE)
       ELSE Rat(sum[1], sum[2] * n)

\* ------------------------------------------------------------------ period_mmm_change_robustness
\* The realization axis of the 5km ensemble, the projection scenarios and the
\* three future periods.
Realizations == <<"ACCESS-CM2", "CNRM-CM6-1", "EC-Earth3", "GFDL-ESM4", "NorESM2-MM">>
NReal == Len(Realizations)
ProjScenarios == <<"ssp126", "ssp245">>
FuturePeriods == <<"2010-2039", "2040-2069", "2070-2099">>
HistPeriod == "1980-2009"

\* The data of one realization at the cell: the time steps of the historical
\* slice, those of a future slice, and the variability threshold the
\* significance test derives from the historical slice.
Member(hist, fut, gamma) == [hist |-> hist, fut |-> fut, gamma |-> gamma]
MemberCases ==
    {Member(<<NaN, NaN>>, <<Num(1), Num(1)>>, Num(0)),
     Member(<<Num(1), Num(1)>>, <<NaN, NaN>>, Num(0)),
     Member(<<Num(1), Num(1)>>, <<Num(3), Num(3)>>, Num(0)),
     Member(<<Num(3), Num(3)>>, <<Num(1), Num(1)>>, Num(0)),
     Member(<<Num(1), Num(3)>>, <<Num(3), NaN>>, Num(2)),
     Member(<<Num(0), Num(0)>>, <<Num(0), Num(0)>>, Num(0))}

\* The future slices of (period p, scenario s) pair the members' future
\* series with the realizations in a different rotation for every slice.
Shift(p, s) == (p - 1) * Len(ProjScenarios) + (s - 1)
FutSeries(p, s, r) == ens[((r - 1 + Shift(p, s)) % NReal) + 1].fut

\* open_suitability: the historical file has no scenario dimension and is
\* broadcast over the projection scenarios.
HistSeries(s, r) == ens[r].hist

\* data_hist.isel(scenario=0).drop_vars("scenario").mean("time")
DataHistAt(r) == MeanSkipNa(HistSeries(1, r))
DataHist == [r \in 1..NReal |-> DataHistAt(r)]
\* data_proj = xr.concat([...], dim="period").mean("time")
DataProjAt(p, s, r) == MeanSkipNa(FutSeries(p, s, r))
DataProj(p, s) == [r \in 1..NReal |-> DataProjAt(p, s, r)]

\* Mutant of MemberDelta: every realization is compared with the ensemble
\* mean of the baseline, data_hist.mean("realization").
MemberDeltaFromEnsembleMean(p, s) ==
    [r \in 1..NReal |-> RSub(DataProjAt(p, s, r), MeanSkipNa(DataHist))]

\* The change of each realization: the difference of its two time means.
MemberDelta(p, s) == [r \in 1..NReal |-> RSub(DataProjAt(p, s, r), DataHistAt(r))]

\* Mutant of DeltaAbsolute: the difference of the two multi-model means.
DeltaOfMeans(p, s) == RSub(MeanSkipNa(DataProj(p, s)), MeanSkipNa(DataHist))

\* (data_proj - data_hist).mean("realization")
DeltaAbsolute(p, s) ==
    MeanSkipNa(MemberDelta(p, s))

\* Mutant of DeltaRelative: the relative change of the multi-model means.
RelativeOfMeans(p, s) == RelPct(DeltaOfMeans(p, s), MeanSkipNa(DataHist))

\* ((data_proj - data_hist) / data_hist * 100).mean("realization")
DeltaRelative(p, s) ==
    LET delta == MemberDelta(p, s)
    IN MeanSkipNa([r \in 1..NReal |-> RelPct(delta[r], DataHistAt(r))])

Delta(p, s) == IF deltaMethod = "absolute" THEN DeltaAbsolute(p, s) ELSE DeltaRelative(p, s)

\* delta.attrs["units"]
ChangeUnits ==
    IF deltaMethod = "relative" THEN "%" ELSE unitsAttr

\* xclim.ensembles.robustness_fractions(fut, ref, test="ipcc-ar6-c") at one
\* cell, from the changes d of the realizations.  A change is valid when it
\* is not NaN, and significant when its magnitude exceeds the variability
\* threshold of the realization.
Valid(d) == {r \in DOMAIN d : d[r].k # "nan"}
Exceeds(x, g) == Abs(x.n) * g.d > g.n * x.d
Changed(d) == {r \in Valid(d) : Exceeds(d[r], ens[r].gamma)}
Positive(d) == {r \in Valid(d) : d[r].n > 0}
Negative(d) == {r \in Valid(d) : d[r].n < 0}
Max(a, b) == IF a >= b THEN a ELSE b

\* The thresholds of the IPCC AR6 classification, in percent of the valid
\* realizations: share showing a significant change, share agreeing on the sign.
ChangedThreshold == 66
AgreeThreshold == 80

\* xclim.ensembles.robustness_categories(fractions) with its default
\* categories: nothing is assigned where the fractions are NaN (no valid
\* realization), and the cell keeps the fill value.
CategoryOf(d) ==
    LET n == Cardinality(Valid(d))
        changed == Cardinality(Changed(d))
        agree == Max(Cardinality(Positive(d)), Cardinality(Negative(d)))
    IN IF n = 0 THEN "unclassified"
       ELSE IF 100 * changed < ChangedThreshold * n THEN "no_change_or_signal"
       ELSE IF 100 * agree >= AgreeThreshold * n THEN "robust"
       ELSE "conflicting"

Category(p, s) == CategoryOf(MemberDelta(p, s))

\* xclim.ensembles.robustness_coefficient(fut, ref): a value of its own, NaN
\* where a side has no data.
Coefficient(p, s) ==
    IF MeanSkipNa(DataProj(p, s)).k = "nan" \/ MeanSkipNa(DataHist).k = "nan" THEN NaN
    ELSE [k |-> "coef", n |-> p, d |-> s]

\* One entry of the time axis of the output, keyed by (period, scenario).
Entry(period, scenario, suit, change, cat, coef) ==
    [period |-> period, scenario |-> scenario, suitability |-> suit, change |-> change,
     robustness_categories |-> cat, robustness_coefficient |-> coef]

\* Mutant of HistEntry: the mean over realizations does not skip NaN.
HistEntryNoSkip ==
    Entry(HistPeriod, "historical",
          IF \E r \in 1..NReal : DataHistAt(r).k = "nan" THEN NaN ELSE MeanSkipNa(DataHist),
          NaN, "nan", NaN)

\* data_hist with period="1980-2009", scenario="historical"; xr.merge fills
\* the variables of delta, which have no such entry, with NaN.
HistEntry == Entry(HistPeriod, "historical", MeanSkipNa(DataHist), NaN, "nan", NaN)

FutureEntry(p, s) ==
    Entry(FuturePeriods[p], ProjScenarios[s], MeanSkipNa(DataProj(p, s)), Delta(p, s),
          Category(p, s), Coefficient(p, s))

\* stack(time=("period", "scenario")): period-major order.
StackedProj ==
    [k \in 1..(Len(FuturePeriods) * Len(ProjScenarios)) |->
        FutureEntry(((k - 1) \div Len(ProjScenarios)) + 1, ((k - 1) % Len(ProjScenarios)) + 1)]

\* xr.merge([out, delta]).reset_index("time")
MmmOutput == [time |-> <<HistEntry>> \o StackedProj, changeUnits |-> ChangeUnits]

PeriodMmmChangeRobustness ==
    /\ mmmPhase = "input"
    /\ mmmOut' = MmmOutput
    /\ mmmPhase' = "computed"
    /\ UNCHANGED <<ens, deltaMethod, unitsAttr, rasterFiles>>
    /\ UNCHANGED notMmm

\* The variables written as rasters, and the ones skipped at the historical entry.
RasterVars == <<"suitability", "change", "robustness_categories", "robustness_coefficient">>
ChangeVars == {"change", "robustness_categories", "robustness_coefficient"}

\* data.set_index(time=["scenario", "period"]): the time values are
\* (scenario, period) tuples.
TimeValue(e) == <<e.scenario, e.period>>

\* Mutant of SkipRaster: the tuple is compared in (period, scenario) order.
SkipRasterPeriodFirst(time, var) ==
    time = <<"1980-2009", "historical">> /\ var \in ChangeVars

\* if time == ("historical", "1980-2009") and var in [...]: continue
SkipRaster(time, var) ==
    time = <<"historical", "1980-2009">> /\ var \in ChangeVars

\* <name>_<var>_<time[0]>_<time[1]>_<res>_v<version>.tif
RasterFile(time, var) == <<var, time[1], time[2]>>

\* write_output: set_index, then _write_output_as_raster.
WriteOutputAsRaster ==
    /\ mmmPhase = "computed"
    /\ rasterFiles' =
           {RasterFile(TimeValue(mmmOut.time[i]), RasterVars[v]) :
               <<i, v>> \in {iv \in (DOMAIN mmmOut.time) \X (DOMAIN RasterVars) :
                                ~SkipRaster(TimeValue(mmmOut.time[iv[1]]), RasterVars[iv[2]])}}
    /\ mmmPhase' = "written"
    /\ UNCHANGED <<ens, deltaMethod, unitsAttr, mmmOut>>
    /\ UNCHANGED notMmm

InitMmm ==
    /\ ens \in [1..NReal -> MemberCases]
    /\ deltaMethod \in {"absolute", "relative"}
    /\ unitsAttr \in {"none", "1"}
    /\ mmmOut = [time |-> <<>>, changeUnits |-> "none"]
    /\ rasterFiles = {}
    /\ mmmPhase = "input"
    /\ OnlyMmm

NextMmm == PeriodMmmChangeRobustness \/ WriteOutputAsRaster

SpecMmm == InitMmm /\ [][NextMmm]_vars

\* ------------------------------------------------------------------ claims on the ensemble means
\* Fractions <<numerator, denominator>>, computed from the input series.
Reduced(n, d) == <<n \div GCD(Abs(n) + d, d), d \div GCD(Abs(n) + d, d)>>
FracAdd(a, b) == Reduced(a[1] * b[2] + b[1] * a[2], a[2] * b[2])
FracSub(a, b) == Reduced(a[1] * b[2] - b[1] * a[2], a[2] * b[2])
RECURSIVE FracSum(_, _)
FracSum(f, S) ==
    IF S = {} THEN <<0, 1>>
    ELSE LET x == CHOOSE y \in S : TRUE
         IN FracAdd(f[x], FracSum(f, S \ {x}))
\* The value x is the fraction q divided by count.
IsFracOver(x, q, count) == x.k = "num" /\ x.n * q[2] * count = q[1] * x.d

Steps(series) == {t \in DOMAIN series : series[t].k # "nan"}
HasData(series) == Steps(series) # {}
\* The mean of the non-NaN time steps of a series with data.
TimeMeanFrac(series) ==
    LET q == FracSum([t \in DOMAIN series |-> <<series[t].n, series[t].d>>], Steps(series))
    IN Reduced(q[1], q[2] * Cardinality(Steps(series)))

Computed == mmmPhase \in {"computed", "written"}
FutureKeys == (DOMAIN FuturePeriods) \X (DOMAIN ProjScenarios)
\* The position of (period p, scenario s) on the time axis of the output.
At(p, s) == mmmOut.time[1 + (p - 1) * Len(ProjScenarios) + s]
Hist == mmmOut.time[1]

\* The realizations with historical data in scenario slice s, with future
\* data in (p, s), and with both.
WithHist(s) == {r \in 1..NReal : HasData(HistSeries(s, r))}
WithFut(p, s) == {r \in 1..NReal : HasData(FutSeries(p, s, r))}
WithBoth(p, s) == WithHist(s) \cap WithFut(p, s)

\* C11: the suitability of the historical entry is the mean, over the
\* realizations that are not NaN, of each realization's 1980-2009 time mean,
\* whichever scenario slice of the historical data it is taken from.
C11_HistoricalMean ==
    Computed =>
        /\ Hist.period = HistPeriod /\ Hist.scenario = "historical"
        /\ \A s \in DOMAIN ProjScenarios :
              IF WithHist(s) = {} THEN Hist.suitability.k = "nan"
              ELSE IsFracOver(Hist.suitability,
                              FracSum([r \in 1..NReal |-> TimeMeanFrac(HistSeries(s, r))], WithHist(s)),
                              Cardinality(WithHist(s)))

\* A historical mean over an ensemble with a NaN realization, a realization
\* with a NaN time step and a realization whose time steps differ.
C11_Witness ==
    /\ Computed
    /\ Hist.suitability.k = "num"
    /\ Cardinality(WithHist(1)) = NReal - 1
    /\ \E r \in 1..NReal : HistSeries(1, r) = <<Num(1), Num(3)>>
    /\ \E r \in 1..NReal : FutSeries(1, 1, r) = <<Num(3), NaN>>

\* C12 as claimed: with delta_method="absolute" the change of every future
\* entry is its suitability minus the suitability of the historical entry.
C12_ChangeIsDifferenceOfMeans ==
    (Computed /\ deltaMethod = "absolute") =>
        \A k \in FutureKeys :
            At(k[1], k[2]).change = RSub(At(k[1], k[2]).suitability, Hist.suitability)

\* C12 amended: the change is the mean, over the realizations that are not
\* NaN in both periods, of the realization's future time mean minus its own
\* historical time mean; it is the difference of the two output suitabilities
\* when the same realizations are NaN in both periods.
C12_ChangeIsMeanOfDifferences ==
    (Computed /\ deltaMethod = "absolute") =>
        \A k \in FutureKeys :
            LET p == k[1]
                s == k[2]
                diff == [r \in 1..NReal |->
                            IF r \in WithBoth(p, s)
                            THEN FracSub(TimeMeanFrac(FutSeries(p, s, r)), TimeMeanFrac(HistSeries(s, r)))
                            ELSE <<0, 1>>]
            IN /\ IF WithBoth(p, s) = {} THEN At(p, s).change.k = "nan"
                  ELSE IsFracOver(At(p, s).change, FracSum(diff, WithBoth(p, s)),
                                  Cardinality(WithBoth(p, s)))
               /\ WithHist(s) = WithFut(p, s) =>
                      At(p, s).change = RSub(At(p, s).suitability, Hist.suitability)

\* A change computed where a realization is NaN in one period only.
C12_Witness ==
    /\ Computed /\ deltaMethod = "absolute"
    /\ WithHist(1) # WithFut(1, 1)
    /\ At(1, 1).change.k = "num"
    /\ At(1, 1).change # RSub(At(1, 1).suitability, Hist.suitability)

\* C13 as claimed: with delta_method="relative" the change is 100 times the
\* difference of the two multi-model means over the historical multi-model
\* mean, and its units are "%".
C13_RelativeOfMeans ==
    (Computed /\ deltaMethod = "relative") =>
        /\ mmmOut.changeUnits = "%"
        /\ \A k \in FutureKeys :
              At(k[1], k[2]).change =
                  RelPct(RSub(At(k[1], k[2]).suitability, Hist.suitability), Hist.suitability)

\* The realizations whose own relative change is a number, and those where
\* it is infinite (a historical mean of 0 and a future mean that is not 0).
IsZeroFrac(q) == q[1] = 0
Finite(p, s) == {r \in WithBoth(p, s) : ~IsZeroFrac(TimeMeanFrac(HistSeries(s, r)))}
Infinite(p, s) ==
    {r \in WithBoth(p, s) : /\ IsZeroFrac(TimeMeanFrac(HistSeries(s, r)))
                            /\ ~IsZeroFrac(TimeMeanFrac(FutSeries(p, s, r)))}
\* 100 * (a - b) / b for b # 0.
RelFrac(a, b) == Reduced(100 * FracSub(a, b)[1] * b[2], FracSub(a, b)[2] * b[1])

\* C13 amended: the change is the mean over the realizations of each
\* realization's own relative change 100 x (future - historical) / historical
\* (NaN ones left out, infinite when a historical mean is 0 and the future
\* mean is not), and its units are "%" whatever the input units.
C13_MeanOfRelativeChanges ==
    (Computed /\ deltaMethod = "relative") =>
        /\ mmmOut.changeUnits = "%"
        /\ \A k \in FutureKeys :
              LET p == k[1]
                  s == k[2]
                  rel == [r \in 1..NReal |->
                             IF r \in Finite(p, s)
                             THEN RelFrac(TimeMeanFrac(FutSeries(p, s, r)), TimeMeanFrac(HistSeries(s, r)))
                             ELSE <<0, 1>>]
              IN IF Infinite(p, s) # {} THEN At(p, s).change.k = "inf"
                 ELSE IF Finite(p, s) = {} THEN At(p, s).change.k = "nan"
                 ELSE IsFracOver(At(p, s).change, FracSum(rel, Finite(p, s)), Cardinality(Finite(p, s)))

\* A relative change of realizations with different historical means, none
\* NaN, with units on the input.
C13_Witness ==
    /\ Computed /\ deltaMethod = "relative" /\ unitsAttr = "1"
    /\ WithBoth(1, 1) = 1..NReal
    /\ At(1, 1).change.k = "num"
    /\ At(1, 1).change #
           RelPct(RSub(At(1, 1).suitability, Hist.suitability), Hist.suitability)

\* ------------------------------------------------------------------ claims on the merged output
OutputKeys == {<<HistPeriod, "historical">>} \cup
              {<<FuturePeriods[k[1]], ProjScenarios[k[2]]>> : k \in FutureKeys}
ThreeCategories == {"robust", "no_change_or_signal", "conflicting"}

\* C14: every (period, scenario) key is on the time axis exactly once; the
\* future entries carry suitability, change, robustness_categories and
\* robustness_coefficient; the historical entry carries suitability only, its
\* other fields being missing and never 0; and the raster export writes no
\* change or robustness file for the historical entry.
C14_MergedOutput ==
    /\ Computed =>
          /\ {<<mmmOut.time[i].period, mmmOut.time[i].scenario>> : i \in DOMAIN mmmOut.time} = OutputKeys
          /\ Len(mmmOut.time) = Cardinality(OutputKeys)
          /\ Hist.change = NaN /\ Hist.robustness_categories = "nan" /\ Hist.robustness_coefficient = NaN
          /\ \A k \in FutureKeys :
                /\ At(k[1], k[2]).period = FuturePeriods[k[1]]
                /\ At(k[1], k[2]).scenario = ProjScenarios[k[2]]
                /\ At(k[1], k[2]).robustness_categories # "nan"
                /\ WithBoth(k[1], k[2]) # {} =>
                      /\ At(k[1], k[2]).suitability.k # "nan"
                      /\ At(k[1], k[2]).change.k # "nan" \/ deltaMethod = "relative"
                      /\ At(k[1], k[2]).robustness_categories \in ThreeCategories
                      /\ At(k[1], k[2]).robustness_coefficient.k # "nan"
    /\ mmmPhase = "written" =>
          rasterFiles = {<<"suitability", "historical", HistPeriod>>} \cup
                        {<<RasterVars[v], ProjScenarios[k[2]], FuturePeriods[k[1]]>> :
                            v \in DOMAIN RasterVars, k \in FutureKeys}

\* The rasters of an output with a historical suitability are written.
C14_Witness ==
    /\ mmmPhase = "written"
    /\ Hist.suitability.k = "num"
    /\ <<"suitability", "historical", HistPeriod>> \in rasterFiles
    /\ <<"change", "ssp126", "2010-2039">> \in rasterFiles

ChangeOf(p, s, r) == FracSub(TimeMeanFrac(FutSeries(p, s, r)), TimeMeanFrac(HistSeries(s, r)))
Significant(p, s) ==
    {r \in WithBoth(p, s) : Abs(ChangeOf(p, s, r)[1]) * ens[r].gamma.d > ens[r].gamma.n * ChangeOf(p, s, r)[2]}
Increasing(p, s) == {r \in WithBoth(p, s) : ChangeOf(p, s, r)[1] > 0}
Decreasing(p, s) == {r \in WithBoth(p, s) : ChangeOf(p, s, r)[1] < 0}
\* The realizations showing a significant change of the more frequent sign.
ConsistentSignificant(p, s) ==
    Max(Cardinality(Significant(p, s) \cap Increasing(p, s)),
        Cardinality(Significant(p, s) \cap Decreasing(p, s)))

NObj == 2
\* The crops with a <name>_criteria catalog, and a name without one.
CropsWithCriteria == {"apple", "citrus", "manuka"}
LuNames == CropsWithCriteria \cup {"unknown"}
\* Values assigned to `resolution`.
ResolutionValues == {"1km", "5km", "25km", "1KM", "None"}

NoObject == [made |-> FALSE, name |-> "", resolution |-> "", path |-> <<>>]
\* nzlusdb.db.path / resolution / "suitability" / name
PathOf(res, name) == <<"db.path", res, "suitability", name>>

\* Mutant of ResolutionSetter: the value is stored before it is validated.
ResolutionSetterStoresFirst(o, value) ==
    IF value \notin {"1km", "5km"}
    THEN [raised |-> TRUE, obj |-> [o EXCEPT !.resolution = value]]
    ELSE [raised |-> FALSE, obj |-> [o EXCEPT !.resolution = value, !.path = PathOf(value, o.name)]]

\* The resolution setter: ValueError before anything is assigned, else
\* _resolution and path are both set.
ResolutionSetter(o, value) ==
    IF value \notin {"1km", "5km"}
    THEN [raised |-> TRUE, obj |-> o]
    ELSE [raised |-> FALSE, obj |-> [o EXCEPT !.resolution = value, !.path = PathOf(value, o.name)]]

\* LandUse.__init__: name, then resolution through the setter, then
\* _get_criteria_info (ValueError without a catalog), then path.
NewLandUse(name, res) ==
    LET r == ResolutionSetter([NoObject EXCEPT !.made = TRUE, !.name = name], res)
    IN IF r.raised THEN r
       ELSE IF name \notin CropsWithCriteria THEN [raised |-> TRUE, obj |-> NoObject]
       ELSE [raised |-> FALSE, obj |-> [r.obj EXCEPT !.path = PathOf(r.obj.resolution, name)]]

Operation(op, i, value, raised, before) ==
    [op |-> op, obj |-> i, value |-> value, outcome |-> IF raised THEN "raised" ELSE "ok", before |-> before]

\* lu = LandUse(name, resolution=res): a failed construction binds nothing.
Construct(i, name, res) ==
    LET r == NewLandUse(name, res)
    IN /\ landuse' = IF r.raised THEN landuse ELSE [landuse EXCEPT ![i] = r.obj]
       /\ luLast' = Operation("construct", i, res, r.raised, landuse[i])
       /\ UNCHANGED notLu

\* lu.resolution = value
SetResolution(i, value) ==
    LET r == ResolutionSetter(landuse[i], value)
    IN /\ landuse[i].made
       /\ landuse' = [landuse EXCEPT ![i] = r.obj]
       /\ luLast' = Operation("set", i, value, r.raised, landuse[i])
       /\ UNCHANGED notLu

InitLu ==
    /\ landuse = [i \in 1..NObj |-> NoObject]
    /\ luLast = Operation("none", 1, "", FALSE, NoObject)
    /\ OnlyLu

NextLu ==
    \E i \in 1..NObj :
        \/ \E name \in LuNames : \E res \in ResolutionValues : Construct(i, name, res)
        \/ \E value \in ResolutionValues : SetResolution(i, value)

SpecLu == InitLu /\ [][NextLu]_vars

\* C17: every LandUse has resolution '1km' or '5km' and path
\* db.path/<resolution>/suitability/<name>; assigning any other value raises
\* ValueError and leaves resolution and path unchanged.
C17_ResolutionAndPath ==
    /\ \A i \in DOMAIN landuse :
          landuse[i].made =>
              /\ landuse[i].resolution \in {"1km", "5km"}
              /\ landuse[i].path = <<"db.path", landuse[i].resolution, "suitability", landuse[i].name>>
    /\ luLast.op = "set" =>
          /\ luLast.outcome = "raised" <=> luLast.value \notin {"1km", "5km"}
          /\ luLast.outcome = "raised" => landuse[luLast.obj] = luLast.before
          /\ luLast.outcome = "ok" => landuse[luLast.obj].resolution = luLast.value

\* An object moved to 1km refuses '25km' and stays at 1km.
C17_Witness ==
    /\ luLast.op = "set" /\ luLast.outcome = "raised" /\ luLast.value = "25km"
    /\ landuse[luLast.obj].resolution = "1km"
    /\ landuse[luLast.obj].path = PathOf("1km", "citrus")

\* ------------------------------------------------------------------ DataBase: the land use registry
\* The LandUse objects offered for registration: NObj distinct objects per name.
LandUseObjects == [name : CropsWithCriteria, id : 1..NObj]
\* The keys looked up with db[key].
LookupKeys == LuNames

\* d[key] = value on a dict
SetItem(d, key, value) == [k \in DOMAIN d \cup {key} |-> IF k = key THEN value ELSE d[k]]

\* Mutant of Register: the object is stored before the duplicate check.
RegisterStoresFirst(db, cls) ==
    [raised |-> cls.name \in DOMAIN db.landuses,
     db |-> [lu_names |-> SetItem(db.lu_names, cls.name, cls.name),
             landuses |-> SetItem(db.landuses, cls.name, cls)]]

\* DataBase.register: the name is listed, then a duplicate raises ValueError,
\* else the object is stored.
Register(db, cls) ==
    LET listed == [db EXCEPT !.lu_names = SetItem(db.lu_names, cls.name, cls.name)]
    IN IF cls.name \in DOMAIN listed.landuses
       THEN [raised |-> TRUE, db |-> listed]
       ELSE [raised |-> FALSE, db |-> [listed EXCEPT !.landuses = SetItem(listed.landuses, cls.name, cls)]]

\* DataBase.__getitem__: KeyError for a key that is not registered.
GetItem(landuses, key) ==
    IF key \notin DOMAIN landuses
    THEN [raised |-> TRUE, value |-> NoObject]
    ELSE [raised |-> FALSE, value |-> landuses[key]]

Db == [lu_names |-> dbLuNames, landuses |-> dbLandUses]
\* choices=list(nzlusdb.db._lu_names)
CliChoices == DOMAIN dbLuNames

\* nzlusdb.db.register(cls)
DbRegister(cls) ==
    LET r == Register(Db, cls)
    IN /\ dbLandUses' = r.db.landuses
       /\ dbLuNames' = r.db.lu_names
       /\ dbLast' = [cls |-> cls, outcome |-> IF r.raised THEN "raised" ELSE "ok", before |-> Db]
       /\ UNCHANGED notDb

InitDb ==
    /\ dbLandUses = <<>>
    /\ dbLuNames = <<>>
    /\ dbLast = [cls |-> NoObject, outcome |-> "none", before |-> [lu_names |-> <<>>, landuses |-> <<>>]]
    /\ OnlyDb

NextDb == \E cls \in LandUseObjects : DbRegister(cls)

SpecDb == InitDb /\ [][NextDb]_vars

\* C18: registering an already registered name raises ValueError and leaves
\* the registry unchanged, db[name] still returning the first object; the
\* listed names are exactly the names db[name] finds, and db[key] raises
\* KeyError for every other key.
C18_RegisterAllOrNothing ==
    /\ dbLast.outcome \in {"ok", "raised"} =>
          (dbLast.outcome = "raised" <=> dbLast.cls.name \in DOMAIN dbLast.before.landuses)
    /\ dbLast.outcome = "raised" =>
          /\ dbLandUses = dbLast.before.landuses
          /\ dbLuNames = dbLast.before.lu_names
          /\ GetItem(dbLandUses, dbLast.cls.name).value = dbLast.before.landuses[dbLast.cls.name]
    /\ dbLast.outcome = "ok" =>
          GetItem(dbLandUses, dbLast.cls.name) = [raised |-> FALSE, value |-> dbLast.cls]
    /\ CliChoices = {key \in LookupKeys : ~GetItem(dbLandUses, key).raised}
    /\ \A key \in LookupKeys \ CliChoices : GetItem(dbLandUses, key).raised

\* A second object named like a registered one was refused.
C18_Witness ==
    /\ dbLast.outcome = "raised"
    /\ dbLast.cls.name \in CliChoices
    /\ dbLandUses[dbLast.cls.name] # dbLast.cls
    /\ CliChoices # CropsWithCriteria

\* ------------------------------------------------------------------ select_hist_proj
\* Calendar years the dates are drawn from, numbered 0..SelYears-1; a date is
\* its day number, DaysPerYear * year + day of the year (no leap days).
SelYears == 3
DaysPerYear == 365
\* Day of the year of 1 January, 30 June, 1 July and 31 December.
Jan01 == 0
Jun30 == 180
Jul01 == 181
Dec31 == 364
Date(y, doy) == DaysPerYear * y + doy
Dates == {Date(y, doy) : y \in 0..(SelYears - 1), doy \in {Jan01, Jun30, Jul01, Dec31}}
\* The data has one time step a day over all the years.
DataDays == 0..(DaysPerYear * SelYears - 1)

\* The annual frequencies: year start anchored in January or in July.
Freqs == {"YS", "YS-JUL"}
Anchor(freq) == IF freq = "YS" THEN Jan01 ELSE Jul01
Boundaries(freq) == {Date(y, Anchor(freq)) : y \in 0..(SelYears - 1)}
\* pd.date_range(start, end, freq): the boundaries within [start, end], both ends included.
DateRange(start, end, freq) == {b \in Boundaries(freq) : start <= b /\ b <= end}
MinOf(S) == CHOOSE x \in S : \A y \in S : x <= y
MaxOf(S) == CHOOSE x \in S : \A y \in S : y <= x

NotCalled == [state |-> "none", lo |-> 0, hi |-> 0]
IndexError == [state |-> "raised", lo |-> 0, hi |-> 0]
\* data.sel(time=slice(lo, hi)) on data already cut to [start_date, end_date]
Selected(a, lo, hi) ==
    [state |-> "ok", lo |-> IF lo < a.start THEN a.start ELSE lo, hi |-> IF hi > a.end THEN a.end ELSE hi]

\* Mutant of SelectHistProj: the historical selection ends on the junction boundary itself.
SelectHistProjJunctionInBoth(a, period) ==
    LET hist_range == DateRange(a.start, a.proj, a.freq)
        proj_range == DateRange(a.proj, a.end, a.freq)
    IN IF hist_range = {} \/ proj_range = {} THEN IndexError
       ELSE IF period = "historical"
            THEN Selected(a, MinOf(hist_range), MaxOf(hist_range))
            ELSE Selected(a, MaxOf(hist_range), MaxOf(proj_range) - 1)

\* select_hist_proj(data, period, start_date, end_date, proj_startdate, freq):
\* [[0, -1]] of an empty date range raises IndexError.
SelectHistProj(a, period) ==
    LET hist_range == DateRange(a.start, a.proj, a.freq)
        proj_range == DateRange(a.proj, a.end, a.freq)
    IN IF hist_range = {} \/ proj_range = {} THEN IndexError
       ELSE IF period = "historical"
            THEN Selected(a, MinOf(hist_range), MaxOf(hist_range) - 1)
            ELSE Selected(a, MaxOf(hist_range), MaxOf(proj_range) - 1)

SelectHistorical ==
    /\ selHist.state = "none"
    /\ selHist' = SelectHistProj(selArgs, "historical")
    /\ UNCHANGED <<selArgs, selProj>>
    /\ UNCHANGED notSel

SelectProjection ==
    /\ selProj.state = "none"
    /\ selProj' = SelectHistProj(selArgs, "projection")
    /\ UNCHANGED <<selArgs, selHist>>
    /\ UNCHANGED notSel

InitSel ==
    /\ selArgs \in [start : Dates, proj : Dates, end : Dates, freq : Freqs]
    /\ selHist = NotCalled
    /\ selProj = NotCalled
    /\ OnlySel

NextSel == SelectHistorical \/ SelectProjection

SpecSel == InitSel /\ [][NextSel]_vars

\* The time steps of a selection.
Days(sel) == {d \in DataDays : sel.state = "ok" /\ sel.lo <= d /\ d <= sel.hi}
BothSelected == selHist.state = "ok" /\ selProj.state = "ok"
\* The last frequency boundary at or before proj_startdate, the first one at
\* or after start_date.
Junction == MaxOf({b \in Boundaries(selArgs.freq) : b <= selArgs.proj})
FirstBoundary == MinOf({b \in Boundaries(selArgs.freq) : b >= selArgs.start})

C20_CompletePeriodsKept ==
    BothSelected =>
        LET kept == Days(selHist) \cup Days(selProj)
        IN \A b \in Boundaries(selArgs.freq) :
              (selArgs.start <= b /\ b + DaysPerYear - 1 <= selArgs.end) =>
                  \A d \in b..(b + DaysPerYear - 1) : d \in kept

\* ------------------------------------------------------------------ downweight
\* Time steps of the weights array, one a day: step t is day of year t.
DwSteps == 5
\* No value given for downweight_from or downweight_to.
NoValue == [k |-> "none", n |-> 0, d |-> 1]
Given(v) == v.k # "none"

\* _get_doys of select_time: the days from start to end, around the end of the
\* year when start > end, without the first and the last when not included.
InDoys(t, start, end, include) ==
    LET lo == IF include[1] THEN start ELSE start + 1
        hi == IF include[2] THEN end ELSE end - 1
    IN IF start <= end THEN lo <= t /\ t <= hi
       ELSE (lo <= t /\ t <= DwSteps) \/ (1 <= t /\ t <= hi)

\* xclim select_time(da, <period_type>=(start, end), include_bounds):
\* da.where(mask), the values of da on the selected days and NaN elsewhere.
SelectTime(da, start, end, include) ==
    [t \in DOMAIN da |-> IF InDoys(t, start, end, include) THEN da[t] ELSE NaN]

\* xr.where(mask.notnull(), value, out)
WhereNotNull(mask, value, out) ==
    [t \in DOMAIN out |-> IF NotNaN(mask[t]) THEN value ELSE out[t]]

\* interpolate_na("time", method="linear", use_coordinate=False): a NaN between
\* two values is filled on the line through them by position; leading and
\* trailing NaN stay.
InterpolateNa(x) ==
    [t \in DOMAIN x |->
        LET before == {i \in DOMAIN x : i < t /\ NotNaN(x[i])}
            after == {i \in DOMAIN x : i > t /\ NotNaN(x[i])}
        IN IF NotNaN(x[t]) THEN x[t]
           ELSE IF before = {} \/ after = {} THEN NaN
           ELSE LET l == SetMax(before)
                    r == SetMin(after)
                IN Rat(x[l].n * x[r].d * (r - l) + (x[r].n * x[l].d - x[l].n * x[r].d) * (t - l),
                       x[l].d * x[r].d * (r - l))]

DwRaised == [state |-> "raised", out |-> <<>>]

\* downweight(weight, period_type, period, downweight_from, downweight_to,
\* include_bounds, interp_method): the period is blanked, then the value is
\* placed on the start (or end) step where `out` is not NaN there, then the
\* gaps are interpolated and the input's NaN restored.
Downweight(weight, a) ==
    IF Len(a.period) # 2 THEN DwRaised
    ELSE IF Given(a.from) = Given(a.to) THEN DwRaised
    ELSE LET start == a.period[1]
             end == a.period[2]
             blanked == WhereNotNull(SelectTime(weight, start, end, a.include), NaN, weight)
             at == IF Given(a.from) THEN start ELSE end
             placed == WhereNotNull(SelectTime(blanked, at, at, <<TRUE, TRUE>>),
                                    IF Given(a.from) THEN a.from ELSE a.to, blanked)
         IN [state |-> "ok",
             out |-> IF a.interp
                     THEN [t \in DOMAIN weight |->
                              IF NotNaN(weight[t]) THEN InterpolateNa(placed)[t] ELSE NaN]
                     ELSE placed]

\* out = downweight(weight, ...): the caller's array is not assigned.
CallDownweight ==
    /\ dwOut.state = "none"
    /\ dwOut' = Downweight(dwWeight, dwArgs)
    /\ UNCHANGED <<dwWeight, dwArgs>>
    /\ UNCHANGED notDw

DwPeriods == {<<s, e>> : s \in 1..DwSteps, e \in 1..DwSteps} \cup {<<1, 2, 3>>}

InitDw ==
    /\ dwWeight \in [1..DwSteps -> {NaN, Num(1)}]
    /\ dwArgs \in [period : DwPeriods, from : {NoValue, Num(0)}, to : {NoValue, Num(0)},
                   include : {<<lo, hi>> : lo \in BOOLEAN, hi \in BOOLEAN}, interp : BOOLEAN]
    /\ dwOut = [state |-> "none", out |-> <<>>]
    /\ OnlyDw

NextDw == CallDownweight

SpecDw == InitDw /\ [][NextDw]_vars

\* The step that receives the value, and the steps of the selected period.
DwValueStep == IF Given(dwArgs.from) THEN dwArgs.period[1] ELSE dwArgs.period[2]
DwValue == IF Given(dwArgs.from) THEN dwArgs.from ELSE dwArgs.to
DwSelected(t) == InDoys(t, dwArgs.period[1], dwArgs.period[2], dwArgs.include)
DwArgsValid == Len(dwArgs.period) = 2 /\ Given(dwArgs.from) # Given(dwArgs.to)

\* C21: downweight raises ValueError exactly for a period not of length 2 or
\* for both or neither of downweight_from/downweight_to; otherwise, whatever
\* include_bounds is, steps outside the period keep their weight, NaN weights
\* stay NaN, and the start step (downweight_from) or end step (downweight_to)
\* holds the given value where the input weight is not NaN.
C21_Downweight ==
    dwOut.state # "none" =>
        /\ dwOut.state = "raised" <=> ~DwArgsValid
        /\ dwOut.state = "ok" =>
              /\ \A t \in DOMAIN dwWeight :
                    (~DwSelected(t) /\ t # DwValueStep) => dwOut.out[t] = dwWeight[t]
              /\ \A t \in DOMAIN dwWeight : ~NotNaN(dwWeight[t]) => ~NotNaN(dwOut.out[t])
              /\ NotNaN(dwWeight[DwValueStep]) => dwOut.out[DwValueStep] = DwValue

\* ------------------------------------------------------------------ ClimDataset.open
\* The longest list of models, scenarios or variables requested.
MaxRequested == 2
Kinds == <<"model", "scenario", "variable">>
\* self.model, self.scenario, self.variables of the dataset.
Available ==
    [model |-> <<"ACCESS-CM2", "EC-Earth3">>,
     scenario |-> <<"historical", "ssp126">>,
     variable |-> <<"tas", "pr">>]
\* Names that may be requested: the available ones and one the dataset lacks.
Requestable(kind) ==
    {Available[kind][i] : i \in DOMAIN Available[kind]} \cup {"unavailable-" \o kind}
SeqsUpTo(S, n) == UNION {[1..m -> S] : m \in 1..n}
\* None, or a list of names.
None == <<"None">>
Requests(kind) == {None} \cup SeqsUpTo(Requestable(kind), MaxRequested)

Elems(xs) == {xs[i] : i \in DOMAIN xs}
\* _valid_invalid(inputs, valids)
ValidInvalid(inputs, valids) ==
    [valid |-> SelectSeq(inputs, LAMBDA i : i \in Elems(valids)),
     invalid |-> SelectSeq(inputs, LAMBDA i : i \notin Elems(valids))]

\* model = model or self.model (None and the empty list give every available one)
OrDefault(requested, kind) == IF requested = None \/ requested = <<>> THEN Available[kind] ELSE requested

\* check_validity for one kind: the list is replaced by its valid part, and
\* the warning is issued when that valid part and the invalid part are both
\* non-empty.
CheckKind(requested, kind) ==
    LET inputs == OrDefault(requested, kind)
        vi == ValidInvalid(inputs, Available[kind])
    IN [kept |-> vi.valid,
        warned |-> IF vi.valid # <<>> /\ vi.invalid # <<>> THEN vi.invalid ELSE <<>>]

\* ClimDataset.open: the lists checked, the warnings issued, then the files
\* read; with an empty list there is nothing to concatenate or open and the
\* reading raises.
Open(req) ==
    LET checked == [kind \in Elems(Kinds) |-> CheckKind(req[kind], kind)]
    IN [state |-> IF \E kind \in Elems(Kinds) : checked[kind].kept = <<>> THEN "raised" ELSE "ok",
        kept |-> [kind \in Elems(Kinds) |-> checked[kind].kept],
        warned |-> [kind \in Elems(Kinds) |-> checked[kind].warned]]

CallOpen ==
    /\ openOut.state = "none"
    /\ openOut' = Open(openReq)
    /\ UNCHANGED openReq
    /\ UNCHANGED notOpen

InitOpen ==
    /\ openReq \in [model : Requests("model"), scenario : Requests("scenario"),
                    variable : Requests("variable")]
    /\ openOut = [state |-> "none"]
    /\ OnlyOpen

NextOpen == CallOpen

SpecOpen == InitOpen /\ [][NextOpen]_vars

\* What was asked for of a kind, and the part of it the dataset has.
Asked(kind) == IF openReq[kind] = None THEN Available[kind] ELSE openReq[kind]
IsAvailable(kind, name) == \E i \in DOMAIN Available[kind] : Available[kind][i] = name

\* C22: every requested model, scenario or variable the dataset lacks is left
\* out and named in an 'Omitting unavailable ...' warning, and the available
\* ones are kept in the order requested, also when all requested values of a
\* kind are unavailable.
C22_UnavailableOmittedAndWarned ==
    openOut.state # "none" =>
        \A kind \in Elems(Kinds) :
            /\ openOut.kept[kind] = SelectSeq(Asked(kind), LAMBDA n : IsAvailable(kind, n))
            /\ \A i \in DOMAIN Asked(kind) :
                  ~IsAvailable(kind, Asked(kind)[i]) => Asked(kind)[i] \in Elems(openOut.warned[kind])

\* ------------------------------------------------------------------ run_workflow at 1km
\* for s in ["ssp126", "ssp245", "ssp370", "ssp585"]
WorkflowScenarios == <<"ssp126", "ssp245", "ssp370", "ssp585">>
\* The values a multi-model mean takes at the cell.
WfValues == {"low", "high"}
\* Periods and scenarios in the order of their labels.
PeriodOrder == <<HistPeriod>> \o FuturePeriods
ScenarioOrder == <<"historical">> \o WorkflowScenarios
RankIn(seq, x) == CHOOSE i \in DOMAIN seq : seq[i] = x

\* The elements of S in increasing rank.
SortedBy(S, Rank(_)) ==
    [i \in 1..Cardinality(S) |->
        CHOOSE x \in S : Cardinality({y \in S : Rank(y) < Rank(x)}) = i - 1]

Key(period, scenario) == [period |-> period, scenario |-> scenario]
\* Order of a (period, scenario) index and of a (scenario, period) index.
PeriodScenarioRank(k) ==
    RankIn(PeriodOrder, k.period) * Len(ScenarioOrder) + RankIn(ScenarioOrder, k.scenario)
ScenarioPeriodRank(k) ==
    RankIn(ScenarioOrder, k.scenario) * Len(PeriodOrder) + RankIn(PeriodOrder, k.period)

\* xr.merge of two indexes: the outer join keeps an index equal to the other
\* and sorts the union otherwise.
OuterJoin(a, b) == IF a = b THEN a ELSE SortedBy(Elems(a) \cup Elems(b), PeriodScenarioRank)

\* period_mmm_change_robustness on open_suitability(scenario=s): the time
\* entries of the result, each with its multi-model mean.
MmmResult(s) ==
    LET futures == [p \in DOMAIN FuturePeriods |-> Key(FuturePeriods[p], s)]
        out == <<Key(HistPeriod, "historical")>> \o futures
        index == OuterJoin(out, futures)
    IN [i \in DOMAIN index |->
           [period |-> index[i].period, scenario |-> index[i].scenario,
            suitability |-> IF index[i].scenario = "historical" THEN wfIn.hist
                            ELSE wfIn.fut[s][index[i].period]]]

\* Mutant of DropIsel0: nothing is dropped.
DropNothing(out) == out

\* out.drop_isel(time=0)
DropIsel0(out) == Tail(out)

HistFile == <<"tmp_mmm-change-robustness", "historical">>
TmpFile(s) == <<"tmp_mmm-change-robustness", s>>

\* One turn of the loop: the first entry of the ssp126 result goes to the
\* historical file, the rest of every result to the scenario's file.
WorkflowScenario ==
    /\ wfIdx \in DOMAIN WorkflowScenarios
    /\ LET s == WorkflowScenarios[wfIdx]
           out == MmmResult(s)
           withHist == IF s = "ssp126" THEN SetItem(wfFiles, HistFile, <<out[1]>>) ELSE wfFiles
       IN /\ wfFiles' = SetItem(withHist, TmpFile(s), DropIsel0(out))
          /\ wfFp' = Append(wfFp, TmpFile(s))
    /\ wfIdx' = wfIdx + 1
    /\ UNCHANGED <<wfIn, wfDs>>
    /\ UNCHANGED notWf

RECURSIVE Concat(_)
Concat(seqs) == IF seqs = <<>> THEN <<>> ELSE Head(seqs) \o Concat(Tail(seqs))

\* open_mfdataset(fp, combine="by_coords", preprocess=_set_index): the files
\* are concatenated in the order of the first (scenario, period) of each.
CombineByCoords(fp) ==
    LET first(i) == ScenarioPeriodRank(wfFiles[fp[i]][1]) * (Len(fp) + 1) + i
        order == SortedBy(DOMAIN fp, first)
    IN Concat([j \in DOMAIN order |-> wfFiles[fp[order[j]]]])

\* xr.concat([historical file with its coordinates assigned, combined files], dim="time")
AssembleDataset ==
    /\ wfIdx = Len(WorkflowScenarios) + 1
    /\ wfDs = <<>>
    /\ wfDs' = [e \in DOMAIN wfFiles[HistFile] |->
                   [wfFiles[HistFile][e] EXCEPT !.scenario = "historical", !.period = "1980-2009"]]
               \o CombineByCoords(wfFp)
    /\ UNCHANGED <<wfIn, wfIdx, wfFiles, wfFp>>
    /\ UNCHANGED notWf

InitWf ==
    /\ wfIn \in [hist : WfValues,
                 fut : [Elems(WorkflowScenarios) -> [Elems(FuturePeriods) -> WfValues]]]
    /\ wfIdx = 1
    /\ wfFiles = <<>>
    /\ wfFp = <<>>
    /\ wfDs = <<>>
    /\ OnlyWf

NextWf == WorkflowScenario \/ AssembleDataset

SpecWf == InitWf /\ [][NextWf]_vars

\* C23: the assembled 1km dataset is the historical entry (1980-2009,
\* 'historical') once and first, carrying the historical mean, followed by
\* exactly the three periods of each of the four scenarios with their means.
C23_OneHistoricalFirst ==
    wfDs # <<>> =>
        /\ Len(wfDs) = 1 + Len(WorkflowScenarios) * Len(FuturePeriods)
        /\ wfDs[1] = [period |-> "1980-2009", scenario |-> "historical", suitability |-> wfIn.hist]
        /\ \A i \in 2..Len(wfDs) : wfDs[i].scenario # "historical" /\ wfDs[i].period # "1980-2009"
        /\ \A s \in Elems(WorkflowScenarios) : \A p \in Elems(FuturePeriods) :
              /\ Cardinality({i \in DOMAIN wfDs : wfDs[i].scenario = s /\ wfDs[i].period = p}) = 1
              /\ \A i \in DOMAIN wfDs :
                    (wfDs[i].scenario = s /\ wfDs[i].period = p) => wfDs[i].suitability = wfIn.fut[s][p]

\* Assembled from a historical mean that differs from every ssp126 mean.
C23_Witness ==
    /\ wfDs # <<>>
    /\ wfIn.hist = "low"
    /\ \A p \in Elems(FuturePeriods) : wfIn.fut["ssp126"][p] = "high"
    /\ wfDs[1].suitability = "low" /\ wfDs[2].suitability = "high"

\* ------------------------------------------------------------------ run_lsa: rerun and the soil file
\* The suitability files of the requested scenarios (and models at 1km).
SuitabilityFiles == OutputFiles(resolution) \ {SoilFile}
\* The current iteration is computing or writing.
Computing == phase \in {"run", "write_soil", "write"}

\* C24: with rerun=False an iteration whose suitability file exists is not
\* computed and that file is never modified; with rerun=True a run_lsa that
\* returns has computed every requested scenario (and model) and rewritten
\* its file.
C24_RerunPolicy ==
    /\ ~rerun =>
          /\ Computing => filesAtStart[CurFile] = NoFile
          /\ \A f \in SuitabilityFiles : filesAtStart[f] = OldFile => files[f] = OldFile
    /\ (rerun /\ phase = "done") =>
          /\ lsaReturned = Cardinality(SuitabilityFiles)
          /\ \A i \in DOMAIN Scenarios : \A j \in DOMAIN Models :
                LET m == IF resolution = "5km" THEN "-" ELSE Models[j]
                    f == files[SuitabilityFile(resolution, Scenarios[i], m)]
                IN f.state = "written" /\ f.scenario = Scenarios[i] /\ f.model = m

\* A 1km run without rerun that kept an old file and wrote a missing one.
C24_Witness ==
    /\ phase = "done" /\ ~rerun /\ resolution = "1km"
    /\ \E f \in SuitabilityFiles : filesAtStart[f] = OldFile /\ files[f] = OldFile
    /\ \E f \in SuitabilityFiles : filesAtStart[f] = NoFile /\ files[f].state = "written"

\* C25: at 1km, after run_lsa returns normally the soilTerrain-suitability
\* file exists, whatever files existed before the call and whatever rerun is.
C25_SoilFileExists ==
    (resolution = "1km" /\ phase = "done") => files[SoilFile].state # "none"

\* ------------------------------------------------------------------ citrus: years with a hot week
\* Years (July to June) of the historical and of the projection selection;
\* historical years are 1..HistYears, projection years follow.
HistYears == 20
ProjYears == 12
\* rolling(time=10) and hist.isel(time=slice(-9, None))
RollingWindow == 10
HistTail == 9
\* climDS.scenario
HotScenarios == <<"historical", "ssp126", "ssp245">>

\* Which years have a hot week: none, or every period-th year from a phase.
MaxHotPeriod == 3
HotPatterns ==
    {[period |-> 0, phase |-> 0]}
        \cup UNION {{[period |-> p, phase |-> q] : q \in 0..(p - 1)} : p \in 1..MaxHotPeriod}
IsHot(pattern, y) == pattern.period > 0 /\ (y + pattern.phase) % pattern.period = 0

YearsOf(scen) ==
    IF scen = "historical" THEN [i \in 1..HistYears |-> i]
    ELSE [i \in 1..ProjYears |-> HistYears + i]

\* year_with_hot_week over the selection of the scenario: per year, 1 when the
\* year has at least one week with 3 days over 35C, else 0.
YearWithHotWeek(scen) ==
    [i \in DOMAIN YearsOf(scen) |->
        [time |-> YearsOf(scen)[i],
         value |-> IF IsHot(hotRaw[scen], YearsOf(scen)[i]) THEN 1 ELSE 0]] \o <<>>

\* NaN, kept apart from every count.
Missing == 0 - 1
RECURSIVE SumValues(_, _, _)
SumValues(x, from, to) ==
    IF from > to THEN 0 ELSE x[from].value + SumValues(x, from + 1, to)

\* x.rolling(time=10).sum(): NaN until ten entries are there, NaN when one
\* of the ten is NaN.
RollingSum(x) ==
    LET series == x \o <<>>
    IN [i \in DOMAIN series |->
           [time |-> series[i].time,
            value |-> IF i < RollingWindow THEN Missing
                      ELSE IF \E j \in (i - RollingWindow + 1)..i : series[j].value = Missing THEN Missing
                      ELSE SumValues(series, i - RollingWindow + 1, i)]] \o <<>>

\* hist.isel(time=slice(-9, None))
LastOfHist(hist) == SubSeq(hist, Len(hist) - HistTail + 1, Len(hist))
\* yhw.sel(time=projtime)
SelTimes(x, times) == SelectSeq(x, LAMBDA e : \E i \in DOMAIN times : times[i].time = e.time)

\* What compute writes for the scenario: the 10-year rolling sum of the
\* yearly series, a projection series being preceded by the last 9 entries
\* read from the historical file.
HotWeekFile(scen, histFile) ==
    LET yhw == YearWithHotWeek(scen)
    IN IF scen = "historical" THEN RollingSum(yhw)
       ELSE SelTimes(RollingSum(LastOfHist(histFile) \o yhw), yhw)

\* if (INDICATORPATH / fname).exists(): print("... exists, skipping...")
SkipHotWeek ==
    /\ hotIdx \in DOMAIN HotScenarios
    /\ hotFiles[HotScenarios[hotIdx]] # <<>>
    /\ hotIdx' = hotIdx + 1
    /\ UNCHANGED <<hotRaw, hotFiles>>
    /\ UNCHANGED notHot

\* else: the indicator is computed and written.
ComputeHotWeek ==
    /\ hotIdx \in DOMAIN HotScenarios
    /\ hotFiles[HotScenarios[hotIdx]] = <<>>
    /\ hotFiles' = [hotFiles EXCEPT ![HotScenarios[hotIdx]] =
                       HotWeekFile(HotScenarios[hotIdx], hotFiles["historical"])]
    /\ hotIdx' = hotIdx + 1
    /\ UNCHANGED hotRaw
    /\ UNCHANGED notHot

\* Files of an earlier compute on the same climate data may be there.
InitHot ==
    /\ hotRaw \in [Elems(HotScenarios) -> HotPatterns]
    /\ \E existing \in SUBSET Elems(HotScenarios) :
          hotFiles = [scen \in Elems(HotScenarios) |->
                         IF scen \in existing /\ "historical" \in existing
                         THEN HotWeekFile(scen, RollingSum(YearWithHotWeek("historical")))
                         ELSE <<>>]
    /\ hotIdx = 1
    /\ OnlyHot

NextHot == SkipHotWeek \/ ComputeHotWeek

SpecHot == InitHot /\ [][NextHot]_vars

\* The years with a hot week among the ten years ending at year t of the
\* scenario, historical years before the junction.
HotYearsEndingAt(scen, t) ==
    Cardinality({y \in (t - 9)..t :
                    y >= 1 /\ IsHot(IF y <= HistYears THEN hotRaw["historical"] ELSE hotRaw[scen], y)})

\* C26: for every projection scenario and projection year t the stored value
\* is the number of years with a hot week among the 10 years ending at t, an
\* integer between 0 and 10.
C26_TenYearCount ==
    \A scen \in Elems(HotScenarios) \ {"historical"} :
        \A i \in DOMAIN hotFiles[scen] :
            /\ hotFiles[scen][i].value = HotYearsEndingAt(scen, hotFiles[scen][i].time)
            /\ hotFiles[scen][i].value \in 0..10

====
